---- MODULE Spec2Model ----
(***************************************************************************)
(* A model of python-ortools-service/scheduler.py: the class               *)
(* ShiftScheduleOptimizer and its entry point optimize_schedule.           *)
(*                                                                         *)
(* One call of optimize_schedule is a run of the pipeline: the prologue    *)
(* (reset, employment periods, weights), _create_variables, the fifteen    *)
(* constraint passes in the order of the source, _add_objective, Solve and *)
(* _extract_solution.  Each of them is one action.  The CP model the       *)
(* passes build is kept as data: `model` is the set of HARD constraints    *)
(* added with model.Add / AddExactlyOne / OnlyEnforceIf, `violation_vars`  *)
(* is the list of (indicator, weight, description) triples.  The solver is *)
(* opaque: Solve returns any assignment that satisfies every constraint of *)
(* `model` (CP-SAT may stop at a FEASIBLE, non-optimal solution), or       *)
(* INFEASIBLE when there is none.                                          *)
(*                                                                         *)
(* Dates are day numbers: the source compares ISO date strings             *)
(* lexicographically, which is the order of the days.                      *)
(***************************************************************************)
EXTENDS Integers, Sequences, FiniteSets, TLC

VARIABLES
    staff_members,      \* argument: sequence of staff records
    date_range,         \* argument: sequence of dates
    constraints_config, \* argument: the constraints envelope
    japanese_holidays,  \* what _fetch_japanese_holidays returns in this call
    optimizer,          \* the fields of the ShiftScheduleOptimizer object
    pc,                 \* position in optimize_schedule
    solver,             \* status and values returned by CpSolver.Solve
    result,             \* the dictionary optimize_schedule returns
    calls               \* the calls made on the optimizer, this one included

vars == <<staff_members, date_range, constraints_config, japanese_holidays,
          optimizer, pc, solver, result, calls>>

\* what a call is made with, and which call it is
inputs == <<staff_members, date_range, constraints_config, japanese_holidays,
            calls>>

-----------------------------------------------------------------------------
(* Shift kinds and the symbol codec                                        *)

SHIFT_WORK == 0
SHIFT_OFF == 1
SHIFT_EARLY == 2
SHIFT_LATE == 3

Kinds == {SHIFT_WORK, SHIFT_OFF, SHIFT_EARLY, SHIFT_LATE}

\* SHIFT_SYMBOLS[k]: the default glyph of kind k
SHIFT_SYMBOLS(k) ==
    CASE k = SHIFT_WORK -> ""
      [] k = SHIFT_OFF -> "×"
      [] k = SHIFT_EARLY -> "△"
      [] k = SHIFT_LATE -> "◇"

UNAVAILABLE_SYMBOL == "⊘"

OffAliases == {"×", "x", "X"}
EarlyAliases == {"△", "s", "S"}
LateAliases == {"◇"}
\* the black and the white star glyphs, written by their code points
BLACK_STAR == "U+2605"
WHITE_STAR == "U+2606"
WorkAliases == {"○", "", BLACK_STAR, WHITE_STAR, "●", "◎", "▣", "⊘"}
StarSymbols == {BLACK_STAR, WHITE_STAR}

\* The keys of SYMBOL_TO_SHIFT
KnownSymbols == OffAliases \cup EarlyAliases \cup LateAliases \cup WorkAliases

\* SYMBOL_TO_SHIFT.get(symbol): the kind, or {} for None
SYMBOL_TO_SHIFT(symbol) ==
    IF symbol \in OffAliases THEN {SHIFT_OFF}
    ELSE IF symbol \in EarlyAliases THEN {SHIFT_EARLY}
    ELSE IF symbol \in LateAliases THEN {SHIFT_LATE}
    ELSE IF symbol \in WorkAliases THEN {SHIFT_WORK}
    ELSE {}

\* str.strip() on the glyphs the model feeds in: surrounding blanks removed
Strip(symbol) ==
    CASE symbol = " ×" -> "×"
      [] symbol = "△ " -> "△"
      [] symbol = " " -> ""
      [] OTHER -> symbol

-----------------------------------------------------------------------------
(* Optional values: {} is None / a missing key, {v} a present value        *)

None == {}
Some(v) == {v}
Get(o, default) == IF o = {} THEN default ELSE CHOOSE v \in o : TRUE

\* d.get(key, default) for a dictionary modelled as a function
DictGet(dict, key, default) ==
    IF key \in DOMAIN dict THEN dict[key] ELSE default

RECURSIVE Flatten(_)
Flatten(ss) == IF ss = <<>> THEN <<>> ELSE Head(ss) \o Flatten(Tail(ss))

Range(f) == {f[i] : i \in DOMAIN f}

Min(a, b) == IF a < b THEN a ELSE b
Max(a, b) == IF a > b THEN a ELSE b

-----------------------------------------------------------------------------
(* Linear expressions over the shift variables                             *)

\* one term coef * shifts[(s, d, k)]
Term(s, d, k, c) == [s |-> s, d |-> d, k |-> k, c |-> c]

\* a solver assignment x gives every cell with variables the set of kinds
\* whose boolean is 1
Hit(x, t) == t.k \in x[<<t.s, t.d>>]

\* the value of sum(terms) under x; coefficients are 1 or 2
SumTerms(x, terms) ==
    Cardinality({t \in terms : Hit(x, t) /\ t.c = 1})
    + 2 * Cardinality({t \in terms : Hit(x, t) /\ t.c = 2})

\* model.Add(lo <= sum(terms) + const <= hi), enforced only if one of the
\* booleans of cond is 1 when cond is not None (OnlyEnforceIf on a MAX)
Lin(terms, const, lo, hi) ==
    [op |-> "lin", cond |-> {}, terms |-> terms, const |-> const,
     lo |-> lo, hi |-> hi]

LinIf(cond, terms, const, lo, hi) ==
    [op |-> "linif", cond |-> cond, terms |-> terms, const |-> const,
     lo |-> lo, hi |-> hi]

\* model.AddMaxEquality(target, exprs) of a fresh boolean target
MaxEq(exprs) ==
    [op |-> "maxeq", cond |-> exprs, terms |-> {}, const |-> 0,
     lo |-> 0, hi |-> 1]

\* does the assignment x satisfy the constraint ct
Holds(x, ct) ==
    LET v == SumTerms(x, ct.terms) + ct.const
    IN CASE ct.op = "lin" -> ct.lo <= v /\ v <= ct.hi
         [] ct.op = "linif" ->
                (SumTerms(x, ct.cond) >= 1) => (ct.lo <= v /\ v <= ct.hi)
         [] ct.op = "maxeq" -> TRUE

-----------------------------------------------------------------------------
(* The inputs                                                              *)

EmptyDict == <<>>

\* a period dictionary {year, month, day}; ym is the month relative to the
\* month of the horizon (None when year or month is missing), day may be
\* missing
Period(ym, day) == [ym |-> ym, day |-> day]

\* the date string f"{year}-{month:02d}-{day:02d}" as a day number: the days
\* of the horizon's month are 1..31, day defaults to 1
PeriodDate(p) == Get(p.ym, 0) * 100 + Get(p.day, 1)

\* the id of a staff dictionary that has no key 'id'
NoId == "(no id)"

\* a staff dictionary; status, start_period and end_period may be missing
Staff(id, status, start_period, end_period) ==
    [id |-> id, status |-> status, type |-> None,
     start_period |-> start_period, end_period |-> end_period]

\* earlyShiftConfig.postPeriodConstraint; every field may be missing
PostPeriod(enabled, isHardConstraint, minPeriodLength, postPeriodDays, avoidDayOffForShain, avoidDayOffForHaken, allowEarlyForShain) ==
    [enabled |-> enabled, isHardConstraint |-> isHardConstraint,
     minPeriodLength |-> minPeriodLength, postPeriodDays |-> postPeriodDays,
     avoidDayOffForShain |-> avoidDayOffForShain,
     avoidDayOffForHaken |-> avoidDayOffForHaken,
     allowEarlyForShain |-> allowEarlyForShain]

NoPostPeriod == PostPeriod(None, None, None, None, None, None, None)

\* the envelope {} : every family absent
EmptyConstraints ==
    [calendarRules |-> <<>>,
     earlyShiftPreferences |-> EmptyDict,
     staffGroups |-> <<>>,
     backupAssignments |-> <<>>,
     priorityRules |-> <<>>,
     dailyLimitsRaw |-> [enabled |-> None, minOffPerDay |-> None,
                         maxOffPerDay |-> None],
     monthlyLimit |-> [minCount |-> None, maxCount |-> None,
                       excludeCalendarRules |-> None,
                       isHardConstraint |-> None],
     monthlyLimitsArray |-> <<>>,
     staffTypeLimits |-> EmptyDict,
     prefilledSchedule |-> EmptyDict,
     postPeriodConstraint |-> NoPostPeriod,
     disableStaffStatusShiftRestrictions |-> FALSE,
     hardConstraints |-> EmptyDict,
     penaltyWeights |-> EmptyDict]

StaffIds == {staff_members[i].id : i \in DOMAIN staff_members}

Dates == Range(date_range)

-----------------------------------------------------------------------------
(* The optimizer object                                                    *)

DEFAULT_PENALTY_WEIGHTS ==
    [staff_group |-> 100, daily_limit |-> 50, daily_limit_max |-> 50,
     monthly_limit |-> 80, adjacent_conflict |-> 30, five_day_rest |-> 200,
     staff_type_limit |-> 60, backup_coverage |-> 500,
     staff_status_shift |-> 150]

\* __init__
NewOptimizer ==
    [model |-> {},
     shifts |-> {},
     calendar_off_dates |-> {},
     calendar_work_dates |-> {},
     prefilled_cells |-> {},
     has_prefilled_symbols |-> FALSE,
     prefilled_symbols |-> EmptyDict,
     prefilled_star_equiv_by_staff |-> EmptyDict,
     backup_unavailable_slots |-> EmptyDict,
     backup_staff_ids |-> {},
     staff_end_dates |-> EmptyDict,
     staff_start_dates |-> EmptyDict,
     violation_vars |-> <<>>,
     objective_terms |-> {},
     preferred_vars |-> None,
     avoided_vars |-> None,
     priority_rule_off_equiv |-> EmptyDict,
     PENALTY_WEIGHTS |-> DEFAULT_PENALTY_WEIGHTS]

NoSolver == [status |-> "NONE", x |-> EmptyDict, v |-> <<>>]

\* error and status are "" when the dictionary has no such key
NoResult ==
    [returned |-> FALSE, success |-> FALSE, schedule |-> EmptyDict,
     violations |-> <<>>, is_optimal |-> FALSE, error |-> "", status |-> ""]

\* the state before the call, for the given arguments
InitWith(staff, dates, constraints, holidays) ==
    /\ staff_members = staff
    /\ date_range = dates
    /\ constraints_config = constraints
    /\ japanese_holidays = holidays
    /\ optimizer = NewOptimizer
    /\ pc = "optimize_schedule"
    /\ solver = NoSolver
    /\ result = NoResult
    /\ calls = 1

-----------------------------------------------------------------------------
(* Employment calendar                                                     *)

\* an employment test that looks at the end date only: what C3 would face
\* if dates before start_period were not skipped
WorksUntilEndOnly(staff_id, date) ==
    LET end_date == DictGet(optimizer.staff_end_dates, staff_id, None)
    IN ~(end_date # None /\ date > Get(end_date, 0))

\* _staff_works_on_date
_staff_works_on_date(staff_id, date) ==
    LET start_date == DictGet(optimizer.staff_start_dates, staff_id, None)
        end_date == DictGet(optimizer.staff_end_dates, staff_id, None)
    IN /\ ~(start_date # None /\ date < Get(start_date, 0))
       /\ ~(end_date # None /\ date > Get(end_date, 0))

\* _has_shift_var(staff_id, date) with shift_type None
_has_shift_var(staff_id, date) == <<staff_id, date, 0>> \in optimizer.shifts

\* the (staff, date) pairs that own variables
Cells == {<<t[1], t[2]>> : t \in optimizer.shifts}

\* the end dates parsed from end_period
ParseEndDates ==
    LET tracked == {i \in DOMAIN staff_members :
                       /\ staff_members[i].end_period # None
                       /\ Get(staff_members[i].end_period, 0).ym # None}
    IN [id \in {staff_members[i].id : i \in tracked} |->
           LET i == CHOOSE j \in tracked : staff_members[j].id = id
           IN Some(PeriodDate(Get(staff_members[i].end_period, 0)))]

\* the start dates parsed from start_period, kept when not before the
\* first date of the horizon
ParseStartDates ==
    LET tracked == {i \in DOMAIN staff_members :
                       /\ staff_members[i].start_period # None
                       /\ Get(staff_members[i].start_period, 0).ym # None
                       /\ Len(date_range) > 0
                       /\ PeriodDate(Get(staff_members[i].start_period, 0))
                              >= date_range[1]}
    IN [id \in {staff_members[i].id : i \in tracked} |->
           LET i == CHOOSE j \in tracked : staff_members[j].id = id
           IN Some(PeriodDate(Get(staff_members[i].start_period, 0)))]

\* the weights rebuilt from ortoolsConfig.penaltyWeights
LoadPenaltyWeights ==
    LET custom_weights == constraints_config.penaltyWeights
        D == DEFAULT_PENALTY_WEIGHTS
    IN [staff_group |-> DictGet(custom_weights, "staffGroup", D.staff_group),
        daily_limit |-> DictGet(custom_weights, "dailyLimitMin", D.daily_limit),
        daily_limit_max |->
            DictGet(custom_weights, "dailyLimitMax", D.daily_limit_max),
        monthly_limit |->
            DictGet(custom_weights, "monthlyLimit", D.monthly_limit),
        adjacent_conflict |->
            DictGet(custom_weights, "adjacentConflict", D.adjacent_conflict),
        five_day_rest |->
            DictGet(custom_weights, "fiveDayRest", D.five_day_rest),
        staff_type_limit |->
            DictGet(custom_weights, "staffTypeLimit", D.staff_type_limit),
        backup_coverage |->
            DictGet(custom_weights, "backupCoverage", D.backup_coverage)]

\* the staff at which staff['id'] raises KeyError while the end dates are
\* parsed: a dictionary without 'id' whose end_period has year and month
EndParseRaises ==
    {i \in DOMAIN staff_members :
        /\ staff_members[i].id = NoId
        /\ staff_members[i].end_period # None
        /\ Get(staff_members[i].end_period, 0).ym # None}

\* the same while the start dates are parsed
StartParseRaises ==
    {i \in DOMAIN staff_members :
        /\ staff_members[i].id = NoId
        /\ staff_members[i].start_period # None
        /\ Get(staff_members[i].start_period, 0).ym # None
        /\ Len(date_range) > 0
        /\ PeriodDate(Get(staff_members[i].start_period, 0)) >= date_range[1]}

\* the entries of a parsed dictionary written before the loop reached the
\* first staff of `raises`
ParsedBefore(parsed, raises) ==
    LET n == CHOOSE i \in raises : \A j \in raises : i <= j
    IN [id \in DOMAIN parsed \cap {staff_members[i].id : i \in 1..(n - 1)} |->
           parsed[id]]

\* optimize_schedule up to the try block: reset, periods, weights.  An
\* exception of these statements leaves the method: nothing is returned
optimize_schedule ==
    /\ pc = "optimize_schedule"
    /\ IF EndParseRaises # {}
       THEN /\ optimizer' = [optimizer EXCEPT
                                !.model = {},
                                !.objective_terms = {},
                                !.shifts = {},
                                !.calendar_off_dates = {},
                                !.prefilled_cells = {},
                                !.prefilled_star_equiv_by_staff = EmptyDict,
                                !.backup_unavailable_slots = EmptyDict,
                                !.violation_vars = <<>>,
                                !.staff_end_dates =
                                    ParsedBefore(ParseEndDates, EndParseRaises)]
            /\ pc' = "raised"
       ELSE IF StartParseRaises # {}
       THEN /\ optimizer' = [optimizer EXCEPT
                                !.model = {},
                                !.objective_terms = {},
                                !.shifts = {},
                                !.calendar_off_dates = {},
                                !.prefilled_cells = {},
                                !.prefilled_star_equiv_by_staff = EmptyDict,
                                !.backup_unavailable_slots = EmptyDict,
                                !.violation_vars = <<>>,
                                !.staff_end_dates = ParseEndDates,
                                !.staff_start_dates =
                                    ParsedBefore(ParseStartDates,
                                                 StartParseRaises)]
            /\ pc' = "raised"
       ELSE /\ optimizer' = [optimizer EXCEPT
                                !.model = {},
                                !.objective_terms = {},
                                !.shifts = {},
                                !.calendar_off_dates = {},
                                !.prefilled_cells = {},
                                !.prefilled_star_equiv_by_staff = EmptyDict,
                                !.backup_unavailable_slots = EmptyDict,
                                !.violation_vars = <<>>,
                                !.staff_end_dates = ParseEndDates,
                                !.staff_start_dates = ParseStartDates,
                                !.PENALTY_WEIGHTS = LoadPenaltyWeights]
            /\ pc' = "_create_variables"
    /\ UNCHANGED <<inputs, solver, result>>

\* the variables of the staff with the given indexes
ShiftsOf(indexes) ==
    LET ids == {staff_members[i].id : i \in indexes}
    IN {<<staff_id, date, shift_type>> :
           staff_id \in ids, date \in Dates, shift_type \in 0..3}
       \ {t \in ids \X Dates \X (0..3) : ~_staff_works_on_date(t[1], t[2])}

\* the dictionary the except clause of optimize_schedule returns
ErrorResult(message) ==
    [NoResult EXCEPT !.returned = TRUE, !.error = message]

\* _create_variables.  staff['id'] of a dictionary without 'id' raises
\* KeyError inside the try block, which returns the error
_create_variables ==
    /\ pc = "_create_variables"
    /\ LET missing == {i \in DOMAIN staff_members : staff_members[i].id = NoId}
       IN IF missing = {}
          THEN /\ optimizer' = [optimizer EXCEPT !.shifts =
                      {<<staff_id, date, shift_type>> :
                          staff_id \in StaffIds, date \in Dates,
                          shift_type \in 0..3}
                      \ {t \in StaffIds \X Dates \X (0..3) :
                            ~_staff_works_on_date(t[1], t[2])}]
               /\ pc' = "_add_basic_constraints"
               /\ UNCHANGED result
          ELSE /\ optimizer' = [optimizer EXCEPT !.shifts =
                      ShiftsOf({i \in DOMAIN staff_members :
                                   \A j \in missing : i < j})]
               /\ pc' = "done"
               /\ result' = ErrorResult("'id'")
    /\ UNCHANGED <<inputs, solver>>

\* a weaker constraint than AddExactlyOne, at most one boolean of the cell:
\* what C1 would face if the basic pass did not force a kind
AtMostOne(staff_id, date) ==
    Lin({Term(staff_id, date, k, 1) : k \in 0..3}, 0, 0, 1)

\* AddExactlyOne over the four booleans of a cell
ExactlyOne(staff_id, date) ==
    Lin({Term(staff_id, date, k, 1) : k \in 0..3}, 0, 1, 1)

\* _add_basic_constraints
_add_basic_constraints ==
    /\ pc = "_add_basic_constraints"
    /\ optimizer' = [optimizer EXCEPT !.model = @ \cup
           {ExactlyOne(staff_id, date) :
               <<staff_id, date>> \in
                   {c \in StaffIds \X Dates : _staff_works_on_date(c[1], c[2])}}]
    /\ pc' = "_add_prefilled_constraints"
    /\ UNCHANGED <<inputs, solver, result>>

-----------------------------------------------------------------------------
(* Violation indicators                                                    *)

\* the text of a violation: the family's wording and what it names
Description(text, staff, date, group) ==
    [text |-> text, staff |-> staff, date |-> date, group |-> group]

\* one entry (indicator, weight, description) of violation_vars.  `sem` says
\* how the constraints that define the indicator tie it to the shift
\* variables:
\*   "var"      the indicator is the shift variable in terms
\*   "not"      1 - the shift variable in terms
\*   "atleast2" 1 iff sum(terms) >= 2
\*   "none"     1 iff sum(terms) = 0
\*   "uncovered" 1 iff some boolean of terms is 1 and the one of aux is 0
\*   "covering"  1 iff some boolean of terms is 1 and the one of aux is 1
\*   "slack"    any value of lb..ub with lb = max(0, sum(terms) + const);
\*   "deficit"  any value of lb..ub with lb = max(0, const - sum(terms))
\*   "escape"   a free boolean that must be 1 when the variable in terms is 1
Violation(sem, terms, aux, const, ub, weight, description) ==
    [sem |-> sem, terms |-> terms, aux |-> aux, const |-> const, ub |-> ub,
     weight |-> weight, description |-> description]

\* the values the solver may give the indicator under the assignment x
ViolationValues(x, viol) ==
    LET n == SumTerms(x, viol.terms)
        a == SumTerms(x, viol.aux)
    IN CASE viol.sem = "var" -> {n}
         [] viol.sem = "not" -> {1 - n}
         [] viol.sem = "atleast2" -> {IF n >= 2 THEN 1 ELSE 0}
         [] viol.sem = "none" -> {IF n = 0 THEN 1 ELSE 0}
         [] viol.sem = "uncovered" -> {IF n >= 1 /\ a = 0 THEN 1 ELSE 0}
         [] viol.sem = "covering" -> {IF n >= 1 /\ a >= 1 THEN 1 ELSE 0}
         [] viol.sem = "slack" -> Max(0, n + viol.const) .. viol.ub
         [] viol.sem = "deficit" -> Max(0, viol.const - n) .. viol.ub
         [] viol.sem = "escape" -> n .. 1

-----------------------------------------------------------------------------
(* _add_prefilled_constraints                                              *)

\* backup_staff_ids_early: the staffId of every active assignment
backup_staff_ids_early ==
    {constraints_config.backupAssignments[i].staffId :
        i \in {j \in DOMAIN constraints_config.backupAssignments :
                  /\ Get(constraints_config.backupAssignments[j].isActive, TRUE)
                  /\ constraints_config.backupAssignments[j].staffId # ""}}

\* the pre-filled cells the pass keeps
KeptPrefilled ==
    LET prefilled == constraints_config.prefilledSchedule
    IN {c \in (DOMAIN prefilled) \X Dates :
           /\ c[1] \notin backup_staff_ids_early
           /\ c[1] \in StaffIds
           /\ c[2] \in DOMAIN prefilled[c[1]]
           /\ prefilled[c[1]][c[2]] # ""
           /\ Strip(prefilled[c[1]][c[2]]) # ""
           /\ _has_shift_var(c[1], c[2])}

\* the kind a pre-filled symbol locks: unknown symbols are treated as WORK
PrefilledShiftType(symbol) ==
    Get(SYMBOL_TO_SHIFT(Strip(symbol)), SHIFT_WORK)

\* storing the default glyph of the locked kind instead of the symbol given:
\* what C2 would face if the pass normalised the glyph
CanonicalSymbol(symbol) == SHIFT_SYMBOLS(PrefilledShiftType(symbol))

\* the symbol stored for the extraction
StoredSymbol(symbol) == Strip(symbol)

_add_prefilled_constraints ==
    /\ pc = "_add_prefilled_constraints"
    /\ LET prefilled == constraints_config.prefilledSchedule
       IN IF DOMAIN prefilled = {}
          THEN UNCHANGED optimizer
          ELSE optimizer' = [optimizer EXCEPT
                  !.model = @ \cup
                      {Lin({Term(c[1], c[2],
                                 PrefilledShiftType(prefilled[c[1]][c[2]]), 1)},
                           0, 1, 1) : c \in KeptPrefilled},
                  !.prefilled_cells = @ \cup KeptPrefilled,
                  !.has_prefilled_symbols = TRUE,
                  !.prefilled_symbols =
                      [c \in KeptPrefilled |->
                          StoredSymbol(prefilled[c[1]][c[2]])]]
    /\ pc' = "_add_calendar_rules"
    /\ UNCHANGED <<inputs, solver, result>>

-----------------------------------------------------------------------------
(* _add_calendar_rules                                                     *)

\* a preference test that reads the entry of the date only: what C4 would
\* face if the entry 'default' were not consulted
DateEntryOnly(staff_id, date) ==
    LET early_shift_prefs == constraints_config.earlyShiftPreferences
    IN /\ staff_id \in DOMAIN early_shift_prefs
       /\ date \in DOMAIN early_shift_prefs[staff_id].dates
       /\ early_shift_prefs[staff_id].dates[date] = TRUE

\* has_early_pref: the entry of the date, else the entry 'default'
has_early_pref(staff_id, date) ==
    LET early_shift_prefs == constraints_config.earlyShiftPreferences
    IN IF staff_id \in DOMAIN early_shift_prefs
       THEN LET staff_prefs == early_shift_prefs[staff_id]
            IN IF date \in DOMAIN staff_prefs.dates
               THEN staff_prefs.dates[date] = TRUE
               ELSE IF staff_prefs.default # None
                    THEN Get(staff_prefs.default, FALSE) = TRUE
                    ELSE FALSE
       ELSE FALSE

\* the rules whose date is in the horizon, by branch
MustDayOffRules ==
    {i \in DOMAIN constraints_config.calendarRules :
        /\ constraints_config.calendarRules[i].date \in Dates
        /\ constraints_config.calendarRules[i].must_day_off}

\* no rule taken as a must_work rule: what C5 would face if the pass had
\* no must_work branch
NoMustWorkRules == {}

MustWorkRules ==
    {i \in DOMAIN constraints_config.calendarRules :
        /\ constraints_config.calendarRules[i].date \in Dates
        /\ ~constraints_config.calendarRules[i].must_day_off
        /\ constraints_config.calendarRules[i].must_work}

\* what the pass adds for one staff on one rule's date
CalendarConstraint(i, staff_id) ==
    LET date == constraints_config.calendarRules[i].date
    IN IF i \in MustDayOffRules /\ ~has_early_pref(staff_id, date)
       THEN {Lin({Term(staff_id, date, SHIFT_OFF, 1)}, 0, 1, 1)}
       ELSE IF i \in MustWorkRules
            THEN {Lin({Term(staff_id, date, SHIFT_WORK, 1)}, 0, 1, 1)}
            ELSE {}

EARLY_PREF_PENALTY == 1000

CalendarViolation(i, staff_id) ==
    LET date == constraints_config.calendarRules[i].date
    IN IF /\ i \in MustDayOffRules
          /\ _has_shift_var(staff_id, date)
          /\ has_early_pref(staff_id, date)
       THEN <<Violation("not", {Term(staff_id, date, SHIFT_EARLY, 1)}, {},
                        0, 1, EARLY_PREF_PENALTY,
                        Description("early_pref", staff_id, date, ""))>>
       ELSE <<>>

_add_calendar_rules ==
    /\ pc = "_add_calendar_rules"
    /\ LET calendar_rules == constraints_config.calendarRules
       IN IF calendar_rules = <<>>
          THEN UNCHANGED optimizer
          ELSE optimizer' = [optimizer EXCEPT
                  !.calendar_off_dates = @ \cup
                      {calendar_rules[i].date : i \in MustDayOffRules},
                  !.calendar_work_dates = @ \cup
                      {calendar_rules[i].date : i \in MustWorkRules},
                  !.model = @ \cup UNION
                      {CalendarConstraint(p[1], p[2]) :
                          p \in {q \in (DOMAIN calendar_rules) \X StaffIds :
                                    _has_shift_var(
                                        q[2], calendar_rules[q[1]].date)}},
                  !.violation_vars = @ \o Flatten(
                      [i \in DOMAIN calendar_rules |-> Flatten(
                          [j \in DOMAIN staff_members |->
                              CalendarViolation(i, staff_members[j].id)])])]
    /\ pc' = "_add_backup_staff_constraints"
    /\ UNCHANGED <<inputs, solver, result>>

-----------------------------------------------------------------------------
(* _add_backup_staff_constraints                                           *)

\* group_by_id[group_id]: the last group of staffGroups with that id
GroupById(group_id) ==
    LET staff_groups == constraints_config.staffGroups
        last == CHOOSE i \in DOMAIN staff_groups :
                    /\ staff_groups[i].id = group_id
                    /\ \A j \in DOMAIN staff_groups :
                           staff_groups[j].id = group_id => j <= i
    IN staff_groups[last]

GroupIds ==
    {constraints_config.staffGroups[i].id :
        i \in DOMAIN constraints_config.staffGroups}

\* valid_members of the group an assignment names
BackupValidMembers(assignment) ==
    GroupById(assignment.groupId).members \cap StaffIds

\* the assignments the loop does not skip
AcceptedAssignments ==
    LET backup_assignments == constraints_config.backupAssignments
    IN {i \in DOMAIN backup_assignments :
           /\ Get(backup_assignments[i].isActive, TRUE)
           /\ backup_assignments[i].staffId # ""
           /\ backup_assignments[i].staffId \in StaffIds
           /\ backup_assignments[i].groupId # ""
           /\ backup_assignments[i].groupId \in GroupIds
           /\ BackupValidMembers(backup_assignments[i]) # {}}

\* the dates of the inner loop for the backup staff of an assignment
BackupDates(backup_staff_id) ==
    {date \in Dates :
        /\ date \notin optimizer.calendar_off_dates
        /\ _staff_works_on_date(backup_staff_id, date)
        /\ _has_shift_var(backup_staff_id, date)}

\* member_off_vars
member_off_vars(assignment, date) ==
    {Term(member_id, date, SHIFT_OFF, 1) :
        member_id \in {m \in BackupValidMembers(assignment) :
                          /\ _staff_works_on_date(m, date)
                          /\ _has_shift_var(m, date)}}

\* a switch that is off unless the configuration turns it on: what C6 would
\* face if backup coverage were SOFT by default
backup_coverage_default_soft ==
    DictGet(constraints_config.hardConstraints, "backupCoverage", FALSE)

backup_coverage_is_hard ==
    DictGet(constraints_config.hardConstraints, "backupCoverage", TRUE)

\* the constraints of coverage alone: what C8 would face if the holidays of
\* the external calendar did not force Off
CoverageConstraintsOnly(assignment, date) ==
    LET b == assignment.staffId
        any_member_off == member_off_vars(assignment, date)
    IN {MaxEq(any_member_off),
        LinIf(any_member_off, {Term(b, date, SHIFT_WORK, 1)}, 0, 1, 1),
        LinIf(any_member_off, {Term(b, date, SHIFT_EARLY, 1)}, 0, 0, 0),
        LinIf(any_member_off, {Term(b, date, SHIFT_LATE, 1)}, 0, 0, 0)}

\* the constraints of one assignment on one date
BackupConstraints(assignment, date) ==
    LET b == assignment.staffId
        any_member_off == member_off_vars(assignment, date)
    IN {MaxEq(any_member_off)}
       \cup (IF backup_coverage_is_hard
             THEN {LinIf(any_member_off, {Term(b, date, SHIFT_WORK, 1)}, 0, 1, 1),
                   LinIf(any_member_off, {Term(b, date, SHIFT_EARLY, 1)}, 0, 0, 0),
                   LinIf(any_member_off, {Term(b, date, SHIFT_LATE, 1)}, 0, 0, 0)}
             ELSE {})
       \cup (IF date \in japanese_holidays
             THEN {Lin({Term(b, date, SHIFT_OFF, 1)}, 0, 1, 1)}
             ELSE {})

\* the indicators of one assignment on one date (SOFT mode)
BackupViolations(assignment, date) ==
    LET b == assignment.staffId
        g == GroupById(assignment.groupId).name
        any_member_off == member_off_vars(assignment, date)
        w == optimizer.PENALTY_WEIGHTS.backup_coverage
    IN IF backup_coverage_is_hard
       THEN <<>>
       ELSE <<Violation("uncovered", any_member_off,
                        {Term(b, date, SHIFT_WORK, 1)}, 0, 1, w,
                        Description("Backup not covering", b, date, g)),
              Violation("covering", any_member_off,
                        {Term(b, date, SHIFT_EARLY, 1)}, 0, 1, w \div 2,
                        Description("Backup has early shift when should cover",
                                    b, date, g)),
              Violation("covering", any_member_off,
                        {Term(b, date, SHIFT_LATE, 1)}, 0, 1, w \div 2,
                        Description("Backup has late shift when should cover",
                                    b, date, g))>>

\* backup_unavailable_slots[(b, date)] as the last accepted assignment of b
\* leaves it
BackupSlot(cell) ==
    LET backup_assignments == constraints_config.backupAssignments
        last == CHOOSE i \in AcceptedAssignments :
                    /\ backup_assignments[i].staffId = cell[1]
                    /\ \A j \in AcceptedAssignments :
                           backup_assignments[j].staffId = cell[1] => j <= i
    IN IF cell[2] \in japanese_holidays
       THEN [type |-> "holiday", any_member_off |-> {}]
       ELSE [type |-> "coverage",
             any_member_off |-> member_off_vars(backup_assignments[last], cell[2])]

_add_backup_staff_constraints ==
    /\ pc = "_add_backup_staff_constraints"
    /\ LET backup_assignments == constraints_config.backupAssignments
           slots == {c \in StaffIds \X Dates :
                        /\ \E i \in AcceptedAssignments :
                               backup_assignments[i].staffId = c[1]
                        /\ c[2] \in BackupDates(c[1])}
       IN IF backup_assignments = <<>> \/ constraints_config.staffGroups = <<>>
          THEN UNCHANGED optimizer
          ELSE optimizer' = [optimizer EXCEPT
                  !.backup_staff_ids = @ \cup
                      {backup_assignments[i].staffId : i \in AcceptedAssignments},
                  !.model = @ \cup UNION
                      {BackupConstraints(backup_assignments[p[1]], p[2]) :
                          p \in {q \in AcceptedAssignments \X Dates :
                                    q[2] \in BackupDates(
                                        backup_assignments[q[1]].staffId)}},
                  !.violation_vars = @ \o Flatten(
                      [i \in DOMAIN backup_assignments |->
                          IF i \in AcceptedAssignments
                          THEN Flatten(
                              [j \in DOMAIN date_range |->
                                  IF date_range[j] \in BackupDates(
                                         backup_assignments[i].staffId)
                                  THEN BackupViolations(backup_assignments[i],
                                                        date_range[j])
                                  ELSE <<>>])
                          ELSE <<>>]),
                  !.backup_unavailable_slots =
                      [c \in (DOMAIN @) \cup slots |->
                          IF c \in slots THEN BackupSlot(c) ELSE @[c]]]
    /\ pc' = "_add_staff_status_shift_restrictions"
    /\ UNCHANGED <<inputs, solver, result>>

-----------------------------------------------------------------------------
(* _add_staff_status_shift_restrictions                                    *)

\* the staff statuses, transliterated: "shain" is the regular employee
\* (the default status), "haken" the dispatch and "part" the part-time staff
DefaultStatus == "shain"

\* _parse_shift_type
_parse_shift_type(shift_str) ==
    CASE shift_str = "off" -> SHIFT_OFF
      [] shift_str = "early" -> SHIFT_EARLY
      [] shift_str = "late" -> SHIFT_LATE
      [] shift_str = "work" -> SHIFT_WORK
      [] shift_str = "normal" -> SHIFT_WORK
      [] OTHER -> SHIFT_WORK

\* effective_restrictions[status].forbiddenShifts of the default table
forbidden_shifts(staff_status) ==
    IF staff_status \in {"haken", "part"} THEN <<"early", "late">> ELSE <<>>

DEFAULT_STATUS_SHIFT_WEIGHT == 150

StatusViolations(staff, date) ==
    LET staff_status == Get(staff.status, DefaultStatus)
        penalty_weight ==
            IF "staff_status_shift" \in DOMAIN optimizer.PENALTY_WEIGHTS
            THEN optimizer.PENALTY_WEIGHTS.staff_status_shift
            ELSE DEFAULT_STATUS_SHIFT_WEIGHT
    IN IF _has_shift_var(staff.id, date)
       THEN [n \in DOMAIN forbidden_shifts(staff_status) |->
               LET shift_type ==
                       _parse_shift_type(forbidden_shifts(staff_status)[n])
               IN Violation("var", {Term(staff.id, date, shift_type, 1)}, {},
                            0, 1, penalty_weight,
                            Description(
                                IF shift_type = SHIFT_EARLY
                                THEN "Forbidden early shift"
                                ELSE "Forbidden late shift",
                                staff.id, date, ""))]
       ELSE <<>>

_add_staff_status_shift_restrictions ==
    /\ pc = "_add_staff_status_shift_restrictions"
    /\ IF constraints_config.disableStaffStatusShiftRestrictions
       THEN UNCHANGED optimizer
       ELSE optimizer' = [optimizer EXCEPT !.violation_vars = @ \o Flatten(
               [i \in DOMAIN staff_members |-> Flatten(
                   [j \in DOMAIN date_range |->
                       StatusViolations(staff_members[i], date_range[j])])])]
    /\ pc' = "_add_staff_group_constraints"
    /\ UNCHANGED <<inputs, solver, result>>

-----------------------------------------------------------------------------
(* _add_staff_group_constraints                                            *)

staff_group_is_hard ==
    DictGet(constraints_config.hardConstraints, "staffGroups", FALSE)

\* working_members of a group on a date
working_members(group, date) ==
    {m \in group.members \cap StaffIds :
        _staff_works_on_date(m, date) /\ _has_shift_var(m, date)}

\* does the loop body act for the group on the date
GroupActsOn(group, date) ==
    /\ Cardinality(group.members \cap StaffIds) >= 2
    /\ date \notin optimizer.calendar_off_dates
    /\ Cardinality(working_members(group, date)) >= 2

\* the pass without its HARD branch: what C12 would face if the sum of the
\* members' Off variables were left unconstrained
GroupConstraintsSoftOnly(group, date) == {}

GroupConstraints(group, date) ==
    IF GroupActsOn(group, date) /\ staff_group_is_hard
    THEN {Lin({Term(m, date, SHIFT_OFF, 1) : m \in working_members(group, date)},
              0, 0, 1)}
    ELSE {}

GroupViolations(group, date) ==
    LET wm == working_members(group, date)
        w == optimizer.PENALTY_WEIGHTS.staff_group
    IN IF ~GroupActsOn(group, date) THEN <<>>
       ELSE IF staff_group_is_hard
       THEN <<Violation("slack", {Term(m, date, SHIFT_EARLY, 1) : m \in wm},
                        {}, -1, Cardinality(wm), w * 2,
                        Description("Staff group early shift violation",
                                    "", date, group.name))>>
       ELSE <<Violation("slack",
                        {Term(m, date, k, 1) :
                            m \in wm, k \in {SHIFT_OFF, SHIFT_EARLY}},
                        {}, -1, Cardinality(wm) * 2, w,
                        Description("Staff group", "", date, group.name))>>

_add_staff_group_constraints ==
    /\ pc = "_add_staff_group_constraints"
    /\ LET staff_groups == constraints_config.staffGroups
       IN IF staff_groups = <<>>
          THEN UNCHANGED optimizer
          ELSE optimizer' = [optimizer EXCEPT
                  !.model = @ \cup UNION
                      {GroupConstraints(staff_groups[p[1]], p[2]) :
                          p \in (DOMAIN staff_groups) \X Dates},
                  !.violation_vars = @ \o Flatten(
                      [i \in DOMAIN staff_groups |-> Flatten(
                          [j \in DOMAIN date_range |->
                              GroupViolations(staff_groups[i], date_range[j])])])]
    /\ pc' = "_add_daily_limits"
    /\ UNCHANGED <<inputs, solver, result>>

-----------------------------------------------------------------------------
(* _add_daily_limits                                                       *)

non_backup_staff ==
    {i \in DOMAIN staff_members :
        staff_members[i].id \notin optimizer.backup_staff_ids}

\* bounds without a minimum: what C11 would face if the pass enforced the
\* maximum alone
DailyBoundsMaxOnly ==
    LET daily_limits == constraints_config.dailyLimitsRaw
        staff_count == Cardinality(non_backup_staff)
        default_max == IF staff_count > 1 THEN Min(4, staff_count - 1) ELSE 0
    IN [min_off |-> 0,
        max_off |-> Min(Get(daily_limits.maxOffPerDay, default_max),
                        staff_count - 1)]

\* [min_off, max_off] after the defaults and the sanity checks
DailyBounds ==
    LET daily_limits == constraints_config.dailyLimitsRaw
        staff_count == Cardinality(non_backup_staff)
        default_min == IF staff_count > 1 THEN Min(2, staff_count - 1) ELSE 0
        default_max == IF staff_count > 1 THEN Min(4, staff_count - 1) ELSE 0
        min_off == Min(Get(daily_limits.minOffPerDay, default_min),
                       staff_count - 1)
        max_off == Min(Get(daily_limits.maxOffPerDay, default_max),
                       staff_count - 1)
    IN [min_off |-> IF min_off > max_off THEN max_off ELSE min_off,
        max_off |-> max_off]

\* a pass that never takes its HARD branch: what C14 would face if the
\* HARD request for daily limits were compiled as SOFT
daily_limit_never_hard == FALSE

daily_limit_is_hard ==
    DictGet(constraints_config.hardConstraints, "dailyLimits", FALSE)

\* the dates the loop does not skip: no must_day_off or must_work rule
DailyDates ==
    {date \in Dates :
        ~\E i \in DOMAIN constraints_config.calendarRules :
            /\ constraints_config.calendarRules[i].date = date
            /\ \/ constraints_config.calendarRules[i].must_day_off
               \/ constraints_config.calendarRules[i].must_work}

\* off_count on a date
off_count(date) ==
    {Term(staff_members[i].id, date, SHIFT_OFF, 1) :
        i \in {j \in non_backup_staff :
                  /\ _staff_works_on_date(staff_members[j].id, date)
                  /\ _has_shift_var(staff_members[j].id, date)}}

DailyConstraints(date) ==
    LET b == DailyBounds
        n == Cardinality(off_count(date))
    IN (IF b.min_off > 0 THEN {Lin(off_count(date), 0, b.min_off, n)} ELSE {})
       \cup {Lin(off_count(date), 0, 0, b.max_off)}

DailyViolations(date) ==
    LET b == DailyBounds
        staff_count == Cardinality(non_backup_staff)
    IN IF date \notin DailyDates THEN <<>>
       ELSE (IF b.min_off > 0
             THEN <<Violation("deficit", off_count(date), {}, b.min_off,
                              staff_count, optimizer.PENALTY_WEIGHTS.daily_limit,
                              Description("Daily under-minimum", "", date, ""))>>
             ELSE <<>>)
            \o <<Violation("slack", off_count(date), {}, 0 - b.max_off,
                           staff_count,
                           optimizer.PENALTY_WEIGHTS.daily_limit_max,
                           Description("Daily over-maximum", "", date, ""))>>

_add_daily_limits ==
    /\ pc = "_add_daily_limits"
    /\ IF ~Get(constraints_config.dailyLimitsRaw.enabled, TRUE)
       THEN UNCHANGED optimizer
       ELSE IF daily_limit_is_hard
       THEN optimizer' = [optimizer EXCEPT !.model = @ \cup UNION
               {DailyConstraints(date) : date \in DailyDates}]
       ELSE optimizer' = [optimizer EXCEPT !.violation_vars = @ \o Flatten(
               [j \in DOMAIN date_range |-> DailyViolations(date_range[j])])]
    /\ pc' = "_add_staff_type_daily_limits"
    /\ UNCHANGED <<inputs, solver, result>>

-----------------------------------------------------------------------------
(* _add_staff_type_daily_limits                                            *)

\* one entry of staffTypeLimits; every field may be missing
TypeLimit(minOff, maxOff, maxEarly, isHard) ==
    [minOff |-> minOff, maxOff |-> maxOff, maxEarly |-> maxEarly,
     isHard |-> isHard]

\* the value that stands for a limit that is not given
UNLIMITED == 999

\* the keys of staffTypeLimits in the order the envelope lists them
StaffTypes ==
    SelectSeq(<<"shain", "haken", "part", "Unknown">>,
              LAMBDA t : t \in DOMAIN constraints_config.staffTypeLimits)

\* staff_by_type[staff_type]: the non-backup staff of the status
staff_by_type(staff_type) ==
    {i \in DOMAIN staff_members :
        /\ staff_members[i].id \notin optimizer.backup_staff_ids
        /\ Get(staff_members[i].status, "Unknown") = staff_type}

\* the type reaches the loop over the dates: it has staff, a limit, no
\* negative limit and no minOff above maxOff
TypeLimitApplies(staff_type) ==
    LET limits == constraints_config.staffTypeLimits[staff_type]
        min_off == limits.minOff
        max_off == limits.maxOff
        max_early == limits.maxEarly
    IN /\ staff_by_type(staff_type) # {}
       /\ ~(min_off = None /\ max_off = None /\ max_early = None)
       /\ ~(min_off # None /\ Get(min_off, 0) < 0)
       /\ ~(max_off # None /\ Get(max_off, 0) < 0)
       /\ ~(max_early # None /\ Get(max_early, 0) < 0)
       /\ ~(min_off # None /\ max_off # None
              /\ Get(min_off, 0) > Get(max_off, 0))

\* max_scaled = max_off_val * 2 + max_early_val * 1
combined_max_scaled(limits) ==
    Get(limits.maxOff, UNLIMITED) * 2 + Get(limits.maxEarly, UNLIMITED) * 1

active_type_staff(staff_type, date) ==
    {staff_members[i].id : i \in
        {j \in staff_by_type(staff_type) :
            /\ _staff_works_on_date(staff_members[j].id, date)
            /\ _has_shift_var(staff_members[j].id, date)}}

\* the indicators of a type on a date: under the minimum, then over the
\* combined limit
StaffTypeViolations(staff_type, date) ==
    LET limits == constraints_config.staffTypeLimits[staff_type]
        min_off == limits.minOff
        penalty_multiplier == IF Get(limits.isHard, FALSE) THEN 3 ELSE 1
        type_count == Cardinality(staff_by_type(staff_type))
        active == active_type_staff(staff_type, date)
        w == optimizer.PENALTY_WEIGHTS.staff_type_limit
    IN IF ~TypeLimitApplies(staff_type)
          \/ date \in optimizer.calendar_off_dates
       THEN <<>>
       ELSE (IF min_off # None /\ Get(min_off, 0) > 0
             THEN <<Violation("deficit",
                              {Term(s, date, SHIFT_OFF, 1) : s \in active},
                              {}, Get(min_off, 0), type_count,
                              w * penalty_multiplier * 2,
                              Description("Staff type under minimum off",
                                          "", date, staff_type))>>
             ELSE <<>>)
            \o <<Violation("slack",
                           {Term(s, date, SHIFT_OFF, 2) : s \in active}
                               \cup {Term(s, date, SHIFT_EARLY, 1) : s \in active},
                           {}, 0 - combined_max_scaled(limits), type_count * 3,
                           w * penalty_multiplier,
                           Description("Staff type over combined limit",
                                       "", date, staff_type))>>

_add_staff_type_daily_limits ==
    /\ pc = "_add_staff_type_daily_limits"
    /\ IF DOMAIN constraints_config.staffTypeLimits = {}
       THEN UNCHANGED optimizer
       ELSE optimizer' = [optimizer EXCEPT
               !.violation_vars = @ \o Flatten(
                   [i \in DOMAIN StaffTypes |-> Flatten(
                       [j \in DOMAIN date_range |->
                           StaffTypeViolations(StaffTypes[i], date_range[j])])])]
    /\ pc' = "_compute_priority_rule_off_equivalent"
    /\ UNCHANGED <<inputs, solver, result>>

-----------------------------------------------------------------------------
(* _compute_priority_rule_off_equivalent                                   *)

\* a rule of priorityRules in the array format.  A missing string key is "",
\* a missing list <<>>, a missing shiftType, isActive, isHardConstraint or
\* priorityLevel None; ruleDefinition and preferences hold "" and <<>> for
\* the keys they lack.  daysOfWeek holds the integers of JavaScript
PriorityRule(id, name, ruleType, staffId, staffIds, shiftType, daysOfWeek, isHardConstraint) ==
    [id |-> id, name |-> name, isActive |-> None, ruleType |-> ruleType,
     staffId |-> staffId, staffIds |-> staffIds, shiftType |-> shiftType,
     daysOfWeek |-> daysOfWeek, isHardConstraint |-> isHardConstraint,
     priorityLevel |-> None, allowedShifts |-> <<>>,
     ruleDefinition |-> [shift_type |-> "", shiftType |-> "",
                         days_of_week |-> <<>>],
     preferences |-> [shiftType |-> "", daysOfWeek |-> <<>>,
                      allowedShifts |-> <<>>]]

\* str.lower() on the names the rules carry
Lower(s) ==
    CASE s = "Off" -> "off"
      [] s = "OFF" -> "off"
      [] s = "Early" -> "early"
      [] s = "EARLY" -> "early"
      [] s = "Late" -> "late"
      [] s = "Work" -> "work"
      [] OTHER -> s

\* _get_day_of_week: the first date of the horizon's month is a Monday
_get_day_of_week(date) ==
    <<"monday", "tuesday", "wednesday", "thursday", "friday", "saturday",
      "sunday">>[((date - 1) % 7) + 1]

\* day_index_to_name: 0 is Sunday
day_index_to_name ==
    [d \in 0..6 |->
        <<"sunday", "monday", "tuesday", "wednesday", "thursday", "friday",
          "saturday">>[d + 1]]

\* target_days of a list of integers: an integer without a name is dropped
target_days(days_of_week) ==
    {day_index_to_name[days_of_week[i]] :
        i \in {j \in DOMAIN days_of_week :
                  days_of_week[j] \in DOMAIN day_index_to_name}}

\* _extract_staff_id_from_rule, _extract_staff_ids_from_rule and the list
\* built from them: the single id when valid, then the valid ids of the
\* list that are not yet in it
target_staff_ids(rule) ==
    LET first == IF rule.staffId # "" /\ rule.staffId \in StaffIds
                 THEN <<rule.staffId>> ELSE <<>>
        more == SelectSeq(rule.staffIds, LAMBDA sid : sid \in StaffIds)
        fresh == {i \in DOMAIN more :
                     /\ more[i] \notin Range(first)
                     /\ \A j \in 1..(i - 1) : more[j] # more[i]}
    IN first \o [k \in 1..Cardinality(fresh) |->
                    more[CHOOSE i \in fresh :
                             Cardinality({j \in fresh : j < i}) = k - 1]]

\* `rule_id and rule_id in processed_rule_ids` at the rule of index i: the
\* id of every earlier rule is in the set, whatever else skipped that rule
is_duplicate(rules, i) ==
    /\ rules[i].id # ""
    /\ \E j \in 1..(i - 1) : rules[j].id = rules[i].id

\* shift_type_name of the pre-pass: shiftType, ruleDefinition.shift_type,
\* ruleDefinition.shiftType, preferences.shiftType, then 'off'
pre_shift_type_name(rule) ==
    LET top == Get(rule.shiftType, "")
        from_def == IF top # "" THEN top
                    ELSE IF rule.ruleDefinition.shift_type # ""
                    THEN rule.ruleDefinition.shift_type
                    ELSE rule.ruleDefinition.shiftType
        from_prefs == IF from_def # "" THEN from_def
                      ELSE rule.preferences.shiftType
    IN Lower(IF from_prefs # "" THEN from_prefs ELSE "off")

\* days_of_week of the pre-pass
pre_days_of_week(rule) ==
    IF rule.daysOfWeek # <<>> THEN rule.daysOfWeek
    ELSE IF rule.ruleDefinition.days_of_week # <<>>
    THEN rule.ruleDefinition.days_of_week
    ELSE rule.preferences.daysOfWeek

\* what one rule adds to priority_rule_off_equiv[staff_id]: 2 per forced
\* day off, 1 per forced early shift, on every date of the horizon that is
\* not calendar-off and whose weekday the rule names
off_equiv_of_rule(rules, i, staff_id) ==
    LET rule == rules[i]
        name == pre_shift_type_name(rule)
        days == target_days(pre_days_of_week(rule))
    IN IF \/ is_duplicate(rules, i)
          \/ ~Get(rule.isHardConstraint, FALSE)
          \/ ~Get(rule.isActive, TRUE)
          \/ rule.ruleType \in {"avoided_shift", "blocked"}
          \/ staff_id \notin Range(target_staff_ids(rule))
          \/ name \notin {"off", "early"}
       THEN 0
       ELSE (IF name = "off" THEN 2 ELSE 1)
            * Cardinality({j \in DOMAIN date_range :
                              /\ date_range[j] \notin optimizer.calendar_off_dates
                              /\ _get_day_of_week(date_range[j]) \in days})

RECURSIVE off_equiv_upto(_, _, _)
off_equiv_upto(rules, n, staff_id) ==
    IF n = 0 THEN 0
    ELSE off_equiv_upto(rules, n - 1, staff_id)
         + off_equiv_of_rule(rules, n, staff_id)

\* priority_rule_off_equiv: reset, then filled for the staff with a
\* positive consumption
_compute_priority_rule_off_equivalent ==
    /\ pc = "_compute_priority_rule_off_equivalent"
    /\ LET priority_rules == constraints_config.priorityRules
           consumed == {id \in StaffIds :
                           off_equiv_upto(priority_rules, Len(priority_rules),
                                          id) > 0}
       IN optimizer' = [optimizer EXCEPT !.priority_rule_off_equiv =
              [id \in consumed |->
                  off_equiv_upto(priority_rules, Len(priority_rules), id)]]
    /\ pc' = "_add_monthly_limits"
    /\ UNCHANGED <<inputs, solver, result>>

-----------------------------------------------------------------------------
(* _add_monthly_limits                                                     *)

MONTHLY_MAX_DEFAULT == 999

\* `not monthly_limit`: the dictionary is empty
MonthlyLimitAbsent ==
    LET monthly_limit == constraints_config.monthlyLimit
    IN /\ monthly_limit.minCount = None
       /\ monthly_limit.maxCount = None
       /\ monthly_limit.excludeCalendarRules = None
       /\ monthly_limit.isHardConstraint = None

exclude_calendar ==
    Get(constraints_config.monthlyLimit.excludeCalendarRules, TRUE)

flexible_dates == {d \in Dates : d \notin optimizer.calendar_off_dates}

\* [min_off, max_off] after the clamp to the number of flexible days
MonthlyBounds ==
    LET monthly_limit == constraints_config.monthlyLimit
        num_flexible_days == Cardinality(flexible_dates)
        min_off == Min(Get(monthly_limit.minCount, 0), num_flexible_days)
        max_off == Min(Get(monthly_limit.maxCount, MONTHLY_MAX_DEFAULT),
                       num_flexible_days)
    IN [min_off |-> IF min_off > max_off THEN max_off ELSE min_off,
        max_off |-> max_off]

monthly_limit_is_hard ==
    IF Get(constraints_config.monthlyLimit.isHardConstraint, FALSE)
    THEN TRUE
    ELSE DictGet(constraints_config.hardConstraints, "monthlyLimits", FALSE)

\* prefilled_star_equiv_by_staff[staff_id], 0 when the staff has no entry
StarEquiv(staff_id) ==
    2 * Cardinality({c \in DOMAIN optimizer.prefilled_symbols :
                        /\ c[1] = staff_id
                        /\ ~(exclude_calendar /\ c[2] \notin flexible_dates)
                        /\ optimizer.prefilled_symbols[c] \in StarSymbols})

\* a count that takes every date of the horizon for a working day: what
\* C21 would face if the bounds were not prorated
total_working_days(staff_id) == Len(date_range)

actual_working_days(staff_id) ==
    Cardinality({j \in DOMAIN date_range :
                    _staff_works_on_date(staff_id, date_range[j])})

\* the bounds without the relaxation: what C20 would face if a backup kept
\* the bounds of the regular staff
StaffMonthlyBoundsUnrelaxed(staff_id) ==
    [min |-> MonthlyBounds.min_off * 2, max |-> MonthlyBounds.max_off * 2]

\* [min, max] scaled by 2 for one staff: prorated for a partial period,
\* relaxed for a backup
StaffMonthlyBounds(staff_id) ==
    LET b == MonthlyBounds
        min_scaled == b.min_off * 2
        max_scaled == b.max_off * 2
        total_days == Len(date_range)
        wd == actual_working_days(staff_id)
        tracked == \/ staff_id \in DOMAIN optimizer.staff_start_dates
                   \/ staff_id \in DOMAIN optimizer.staff_end_dates
        calculated_min == Max(0, (wd * 100) \div 425)
        calculated_max == Max(calculated_min + 1,
                              ((max_scaled \div 2) * wd) \div total_days)
    IN IF staff_id \in optimizer.backup_staff_ids
       THEN [min |-> 0, max |-> ((b.max_off * 3) \div 2) * 2]
       ELSE IF tracked /\ wd < total_days /\ wd > 0
       THEN [min |-> calculated_min * 2, max |-> calculated_max * 2]
       ELSE [min |-> min_scaled, max |-> max_scaled]

\* the dates whose variables enter combined_scaled
MonthlyDates(staff_id) ==
    {d \in (IF exclude_calendar THEN flexible_dates ELSE Dates) :
        _staff_works_on_date(staff_id, d) /\ _has_shift_var(staff_id, d)}

\* a sum of the days off alone: what C10 would face if early shifts did
\* not count for half a day off
off_only_scaled(staff_id) ==
    {Term(staff_id, d, SHIFT_OFF, 2) : d \in MonthlyDates(staff_id)}

\* combined_scaled without the star constant: 2 * off + 1 * early
combined_scaled(staff_id) ==
    {Term(staff_id, d, SHIFT_OFF, 2) : d \in MonthlyDates(staff_id)}
    \cup {Term(staff_id, d, SHIFT_EARLY, 1) : d \in MonthlyDates(staff_id)}

MonthlyConstraints(staff_id) ==
    LET b == StaffMonthlyBounds(staff_id)
        max_possible == Cardinality(MonthlyDates(staff_id)) * 3
        star == StarEquiv(staff_id)
    IN (IF b.min > 0
        THEN {Lin(combined_scaled(staff_id), star, b.min, max_possible + star)}
        ELSE {})
       \cup {Lin(combined_scaled(staff_id), star, 0, b.max)}

MonthlyViolations(staff_id) ==
    LET b == StaffMonthlyBounds(staff_id)
        max_possible == Cardinality(MonthlyDates(staff_id)) * 3
        star == StarEquiv(staff_id)
        w == optimizer.PENALTY_WEIGHTS.monthly_limit
    IN (IF b.min > 0
        THEN <<Violation("deficit", combined_scaled(staff_id), {},
                         b.min - star, max_possible, w,
                         Description("Monthly under-minimum", staff_id, 0, ""))>>
        ELSE <<>>)
       \o <<Violation("slack", combined_scaled(staff_id), {},
                      star - b.max, max_possible, w,
                      Description("Monthly over-maximum", staff_id, 0, ""))>>

_add_monthly_limits ==
    /\ pc = "_add_monthly_limits"
    /\ IF MonthlyLimitAbsent
       THEN UNCHANGED optimizer
       ELSE optimizer' = [optimizer EXCEPT
               !.prefilled_star_equiv_by_staff =
                   [id \in {c[1] : c \in {cc \in DOMAIN optimizer.prefilled_symbols :
                                             StarEquiv(cc[1]) > 0}} |->
                       StarEquiv(id)],
               !.model = IF monthly_limit_is_hard
                         THEN @ \cup UNION {MonthlyConstraints(id) : id \in StaffIds}
                         ELSE @,
               !.violation_vars =
                   IF monthly_limit_is_hard
                   THEN @
                   ELSE @ \o Flatten([i \in DOMAIN staff_members |->
                                         MonthlyViolations(staff_members[i].id)])]
    /\ pc' = "_add_monthly_early_shift_limits"
    /\ UNCHANGED <<inputs, solver, result>>

-----------------------------------------------------------------------------
(* _add_monthly_early_shift_limits                                         *)

MAX_EARLY_PER_MONTH == 3

\* shain_staff: type or status is explicitly the regular employee's
shain_staff ==
    {staff_members[i].id :
        i \in {j \in DOMAIN staff_members :
                  \/ staff_members[j].type = Some("shain")
                  \/ staff_members[j].status = Some("shain")}}

MonthlyEarlyConstraints(staff_id) ==
    LET working_dates == {d \in Dates : _staff_works_on_date(staff_id, d)}
    IN IF working_dates = {} THEN {}
       ELSE {Lin({Term(staff_id, d, SHIFT_EARLY, 1) :
                     d \in {dd \in working_dates :
                               <<staff_id, dd, SHIFT_EARLY>> \in optimizer.shifts}},
                 0, 0, MAX_EARLY_PER_MONTH)}

_add_monthly_early_shift_limits ==
    /\ pc = "_add_monthly_early_shift_limits"
    /\ optimizer' = [optimizer EXCEPT !.model = @ \cup UNION
           {MonthlyEarlyConstraints(id) : id \in shain_staff}]
    /\ pc' = "_add_adjacent_conflict_prevention"
    /\ UNCHANGED <<inputs, solver, result>>

-----------------------------------------------------------------------------
(* _add_adjacent_conflict_prevention                                       *)

PREFILLED_ADJACENT_PENALTY == 500

\* dateN_is_prefilled_work: a stored symbol that is not the literal off glyph
is_prefilled_work(staff_id, date) ==
    /\ <<staff_id, date>> \in DOMAIN optimizer.prefilled_symbols
    /\ optimizer.prefilled_symbols[<<staff_id, date>>] # "×"

\* the indicators of one staff for the pair (date_range[i], date_range[i+1])
AdjacentViolations(staff_id, i) ==
    LET date1 == date_range[i]
        date2 == date_range[i + 1]
        w == optimizer.PENALTY_WEIGHTS.adjacent_conflict
        Pair(k1, k2, text) ==
            Violation("atleast2",
                      {Term(staff_id, date1, k1, 1), Term(staff_id, date2, k2, 1)},
                      {}, 0, 1, w, Description(text, staff_id, date1, ""))
    IN IF \/ date1 \in optimizer.calendar_off_dates
          \/ date2 \in optimizer.calendar_off_dates
          \/ ~_has_shift_var(staff_id, date1)
          \/ ~_has_shift_var(staff_id, date2)
       THEN <<>>
       ELSE (IF is_prefilled_work(staff_id, date1)
             THEN <<Violation("var", {Term(staff_id, date2, SHIFT_OFF, 1)}, {},
                              0, 1, PREFILLED_ADJACENT_PENALTY,
                              Description("Day-off after pre-filled work",
                                          staff_id, date2, ""))>>
             ELSE <<>>)
            \o (IF is_prefilled_work(staff_id, date2)
                THEN <<Violation("var", {Term(staff_id, date1, SHIFT_OFF, 1)}, {},
                                 0, 1, PREFILLED_ADJACENT_PENALTY,
                                 Description("Day-off before pre-filled work",
                                             staff_id, date1, ""))>>
                ELSE <<>>)
            \o <<Pair(SHIFT_OFF, SHIFT_OFF, "Consecutive off days"),
                 Pair(SHIFT_EARLY, SHIFT_OFF, "Early-then-off"),
                 Pair(SHIFT_OFF, SHIFT_EARLY, "Off-then-early"),
                 Pair(SHIFT_EARLY, SHIFT_EARLY, "Consecutive early shifts")>>

_add_adjacent_conflict_prevention ==
    /\ pc = "_add_adjacent_conflict_prevention"
    /\ optimizer' = [optimizer EXCEPT !.violation_vars = @ \o Flatten(
           [j \in DOMAIN staff_members |-> Flatten(
               [i \in 1..(Len(date_range) - 1) |->
                   AdjacentViolations(staff_members[j].id, i)])])]
    /\ pc' = "_add_5_day_rest_constraint"
    /\ UNCHANGED <<inputs, solver, result>>

-----------------------------------------------------------------------------
(* _add_5_day_rest_constraint                                              *)

REST_WINDOW == 6

five_day_rest_is_hard ==
    DictGet(constraints_config.hardConstraints, "fiveDayRest", FALSE)

\* window: the dates date_range[i : i + 6]
RestWindow(i) == {date_range[j] : j \in i..(i + REST_WINDOW - 1)}

\* the window starts of range(len(date_range) - 5) whose six dates all have
\* variables for the staff
ActiveWindows(staff_id) ==
    {i \in 1..(Len(date_range) - (REST_WINDOW - 1)) :
        \A d \in RestWindow(i) :
            _staff_works_on_date(staff_id, d) /\ _has_shift_var(staff_id, d)}

\* a rest count that takes an early shift for a rest day: what C9 would
\* face if Early counted as rest
off_or_early_days(staff_id, i) ==
    {Term(staff_id, d, k, 1) : d \in RestWindow(i), k \in {SHIFT_OFF, SHIFT_EARLY}}

\* off_days of a window
off_days(staff_id, i) ==
    {Term(staff_id, d, SHIFT_OFF, 1) : d \in RestWindow(i)}

_add_5_day_rest_constraint ==
    /\ pc = "_add_5_day_rest_constraint"
    /\ IF five_day_rest_is_hard
       THEN optimizer' = [optimizer EXCEPT !.model = @ \cup
               {Lin(off_days(p[1], p[2]), 0, 1, REST_WINDOW) :
                   p \in {q \in StaffIds \X (1..Len(date_range)) :
                             q[2] \in ActiveWindows(q[1])}}]
       ELSE optimizer' = [optimizer EXCEPT !.violation_vars = @ \o Flatten(
               [j \in DOMAIN staff_members |-> Flatten(
                   [i \in 1..(Len(date_range) - (REST_WINDOW - 1)) |->
                       IF i \in ActiveWindows(staff_members[j].id)
                       THEN <<Violation("none",
                                        off_days(staff_members[j].id, i), {},
                                        0, 1,
                                        optimizer.PENALTY_WEIGHTS.five_day_rest,
                                        Description("6+ consecutive work days",
                                                    staff_members[j].id,
                                                    date_range[i], ""))>>
                       ELSE <<>>])])]
    /\ pc' = "_add_post_period_constraints"
    /\ UNCHANGED <<inputs, solver, result>>

-----------------------------------------------------------------------------
(* _add_post_period_constraints                                            *)

\* the set as an ascending list: sorted()
RECURSIVE Sorted(_)
Sorted(S) ==
    IF S = {} THEN <<>>
    ELSE LET m == CHOOSE x \in S : \A y \in S : x <= y
         IN <<m>> \o Sorted(S \ {m})

\* must_day_off_dates: the dates of the horizon with a must_day_off rule
must_day_off_dates ==
    {constraints_config.calendarRules[i].date :
        i \in {j \in DOMAIN constraints_config.calendarRules :
                  constraints_config.calendarRules[j].must_day_off}} \cap Dates

\* the last dates of the periods of consecutive must_day_off dates that last
\* min_period_length days or more
PeriodEnds ==
    LET min_period_length ==
            Get(constraints_config.postPeriodConstraint.minPeriodLength, 3)
        Start(e) == CHOOSE st \in must_day_off_dates :
                        /\ st <= e
                        /\ \A d \in st..e : d \in must_day_off_dates
                        /\ (st - 1) \notin must_day_off_dates
    IN {e \in must_day_off_dates :
           /\ (e + 1) \notin must_day_off_dates
           /\ (e - Start(e)) + 1 >= min_period_length}

\* post_period_dates: for each period in turn, the dates of the horizon
\* among the post_period_days that follow it
post_period_dates ==
    LET post_period_days ==
            Get(constraints_config.postPeriodConstraint.postPeriodDays, 2)
        ends == Sorted(PeriodEnds)
    IN Flatten([i \in DOMAIN ends |->
           SelectSeq([day_offset \in 1..post_period_days |->
                         ends[i] + day_offset],
                     LAMBDA post_date : post_date \in Dates)])

ESCAPE_PENALTY == 10000

STANDARD_PENALTY == 500

\* should_avoid_dayoff
should_avoid_dayoff(staff) ==
    LET post_period_config == constraints_config.postPeriodConstraint
        staff_status == Get(staff.status, "shain")
    IN \/ /\ staff_status = "shain"
          /\ Get(post_period_config.avoidDayOffForShain, TRUE)
       \/ /\ staff_status = "haken"
          /\ Get(post_period_config.avoidDayOffForHaken, TRUE)

\* the staff the inner loop constrains on a post-period date
PostPeriodStaff(date) ==
    SelectSeq(staff_members,
              LAMBDA staff : /\ _staff_works_on_date(staff.id, date)
                             /\ _has_shift_var(staff.id, date)
                             /\ should_avoid_dayoff(staff))

\* the indicator of SOFT mode in every mode: what C15 would face if HARD
\* mode had no escape boolean
PostPeriodViolationSoftOnly(staff, date) ==
    Violation("var", {Term(staff.id, date, SHIFT_OFF, 1)}, {}, 0, 1,
              STANDARD_PENALTY,
              Description("Post-period day-off avoided", staff.id, date, ""))

\* HARD: a free escape boolean without which Off is forbidden, at 10000;
\* SOFT: the Off variable itself, at 500
PostPeriodViolation(staff, date) ==
    IF Get(constraints_config.postPeriodConstraint.isHardConstraint, TRUE)
    THEN Violation("escape", {Term(staff.id, date, SHIFT_OFF, 1)}, {}, 0, 1,
                   ESCAPE_PENALTY,
                   Description("HARD escape: Post-period day-off",
                               staff.id, date, ""))
    ELSE Violation("var", {Term(staff.id, date, SHIFT_OFF, 1)}, {}, 0, 1,
                   STANDARD_PENALTY,
                   Description("Post-period day-off avoided",
                               staff.id, date, ""))

\* the (early_var, 20) entries appended to preferred_vars
PostPeriodPreferred ==
    {Term(p[1].id, p[2], SHIFT_EARLY, 20) :
        p \in {q \in Range(staff_members) \X Range(post_period_dates) :
                  /\ q[1] \in Range(PostPeriodStaff(q[2]))
                  /\ Get(q[1].status, "shain") = "shain"
                  /\ Get(constraints_config.postPeriodConstraint
                             .allowEarlyForShain, TRUE)}}

_add_post_period_constraints ==
    /\ pc = "_add_post_period_constraints"
    /\ IF ~Get(constraints_config.postPeriodConstraint.enabled, FALSE)
          \/ post_period_dates = <<>>
       THEN UNCHANGED optimizer
       ELSE optimizer' = [optimizer EXCEPT
               !.violation_vars = @ \o Flatten(
                   [i \in DOMAIN post_period_dates |->
                       LET date == post_period_dates[i]
                           staff == PostPeriodStaff(date)
                       IN [j \in DOMAIN staff |->
                              PostPeriodViolation(staff[j], date)]]),
               !.preferred_vars =
                   IF PostPeriodPreferred = {} THEN @
                   ELSE Some(Get(@, {}) \cup PostPeriodPreferred)]
    /\ pc' = "_add_priority_rules"
    /\ UNCHANGED <<inputs, solver, result>>

-----------------------------------------------------------------------------
(* _add_priority_rules, _add_objective                                     *)

\* shift_type_name of the compile pass: shiftType, 'off' when the key is
\* missing; preferences.shiftType replaces an empty name and 'off'
shift_type_name(rule) ==
    LET top == Lower(Get(rule.shiftType, "off"))
    IN IF (top = "" \/ top = "off") /\ rule.preferences.shiftType # ""
       THEN Lower(rule.preferences.shiftType)
       ELSE top

\* days_of_week of the compile pass
days_of_week(rule) ==
    IF rule.daysOfWeek # <<>> THEN rule.daysOfWeek
    ELSE rule.preferences.daysOfWeek

\* the rule of index i reaches the loop over its staff and the dates
rule_applied(rules, i) ==
    /\ ~is_duplicate(rules, i)
    /\ Get(rules[i].isActive, TRUE)
    /\ target_staff_ids(rules[i]) # <<>>

\* the (staff, date) pairs the loop of a rule acts on, in its order
rule_cells(rule) ==
    LET staff == target_staff_ids(rule)
        shift_type == _parse_shift_type(shift_type_name(rule))
    IN Flatten([k \in DOMAIN staff |->
           LET dates == SelectSeq(date_range, LAMBDA date :
                   /\ date \notin optimizer.calendar_off_dates
                   /\ date \notin optimizer.calendar_work_dates
                   /\ _staff_works_on_date(staff[k], date)
                   /\ _get_day_of_week(date) \in target_days(days_of_week(rule))
                   /\ <<staff[k], date, shift_type>> \in optimizer.shifts)
           IN [j \in DOMAIN dates |-> <<staff[k], dates[j]>>]])

\* the indicators of a nominally HARD rule, at 500: the variable of the
\* avoided or blocked kind, or 1 - the variable of the required kind
rule_violations(rules, i) ==
    LET rule == rules[i]
        shift_type == _parse_shift_type(shift_type_name(rule))
        cells == rule_cells(rule)
    IN IF ~rule_applied(rules, i) \/ ~Get(rule.isHardConstraint, FALSE)
       THEN <<>>
       ELSE [j \in DOMAIN cells |->
               IF rule.ruleType = "avoid_shift_with_exceptions"
               THEN Violation("var",
                              {Term(cells[j][1], cells[j][2], shift_type, 1)},
                              {}, 0, 1, 500,
                              Description("hard_priority_avoid", cells[j][1],
                                          cells[j][2], rule.name))
               ELSE IF rule.ruleType \in {"avoided_shift", "blocked"}
               THEN Violation("var",
                              {Term(cells[j][1], cells[j][2], shift_type, 1)},
                              {}, 0, 1, 500,
                              Description("hard_priority_blocked", cells[j][1],
                                          cells[j][2], rule.name))
               ELSE Violation("not",
                              {Term(cells[j][1], cells[j][2], shift_type, 1)},
                              {}, 0, 1, 500,
                              Description("hard_priority_required", cells[j][1],
                                          cells[j][2], rule.name))]

\* allowedShifts of the compile pass
allowed_shifts(rule) ==
    IF rule.allowedShifts # <<>> THEN rule.allowedShifts
    ELSE rule.preferences.allowedShifts

\* the (variable, weight) entries a rule appends to preferred_vars: 15 on
\* every exception kind, priority_level on the kind of a SOFT preference
rule_preferred(rules, i) ==
    LET rule == rules[i]
        shift_type == _parse_shift_type(shift_type_name(rule))
        cells == Range(rule_cells(rule))
    IN IF ~rule_applied(rules, i) THEN {}
       ELSE IF rule.ruleType = "avoid_shift_with_exceptions"
       THEN {Term(c[1], c[2], _parse_shift_type(Lower(a)), 15) :
                <<c, a>> \in
                    {p \in cells \X Range(allowed_shifts(rule)) :
                        /\ _parse_shift_type(Lower(p[2])) # shift_type
                        /\ <<p[1][1], p[1][2], _parse_shift_type(Lower(p[2]))>>
                               \in optimizer.shifts}}
       ELSE IF rule.ruleType \in {"avoided_shift", "blocked"}
               \/ Get(rule.isHardConstraint, FALSE)
       THEN {}
       ELSE {Term(c[1], c[2], shift_type, Get(rule.priorityLevel, 2)) :
                c \in cells}

\* the entries a rule appends to avoided_vars
rule_avoided(rules, i) ==
    LET rule == rules[i]
        shift_type == _parse_shift_type(shift_type_name(rule))
        cells == Range(rule_cells(rule))
    IN IF /\ rule_applied(rules, i)
          /\ rule.ruleType \in {"avoid_shift_with_exceptions", "avoided_shift",
                                "blocked"}
          /\ ~Get(rule.isHardConstraint, FALSE)
       THEN {Term(c[1], c[2], shift_type, Get(rule.priorityLevel, 2)) :
                c \in cells}
       ELSE {}

\* _add_priority_rule_rest_guarantee: the rule avoids days off and allows
\* early shifts.  The loop looks at every rule of the list
avoids_dayoff(rule) ==
    LET avoided == IF Get(rule.shiftType, "") # "" THEN Get(rule.shiftType, "")
                   ELSE IF rule.ruleDefinition.shiftType # ""
                   THEN rule.ruleDefinition.shiftType
                   ELSE rule.ruleDefinition.shift_type
    IN /\ Get(rule.isActive, TRUE)
       /\ rule.ruleType = "avoid_shift_with_exceptions"
       /\ Lower(avoided) \in {"off", "day_off", "×", "dayoff"}
       /\ \E a \in Range(allowed_shifts(rule)) :
              Lower(a) \in {"early", "△", "early_shift", "earlyshift"}

\* the keys of avoid_dayoff_staff in the order of their insertion: the
\* valid ids of staffIds of every such rule
avoid_dayoff_staff ==
    LET rules == constraints_config.priorityRules
        ids == Flatten([i \in DOMAIN rules |->
                   IF avoids_dayoff(rules[i])
                   THEN SelectSeq(rules[i].staffIds,
                                  LAMBDA sid : sid \in StaffIds)
                   ELSE <<>>])
        keep == {i \in DOMAIN ids : \A j \in 1..(i - 1) : ids[j] # ids[i]}
    IN [k \in 1..Cardinality(keep) |->
           ids[CHOOSE i \in keep : Cardinality({j \in keep : j < i}) = k - 1]]

\* avoid_dayoff_staff[staff_id]['days']
rest_days(staff_id) ==
    LET rules == constraints_config.priorityRules
    IN UNION {target_days(IF rules[i].daysOfWeek # <<>>
                          THEN rules[i].daysOfWeek
                          ELSE rules[i].ruleDefinition.days_of_week) :
                 i \in {j \in DOMAIN rules :
                           /\ avoids_dayoff(rules[j])
                           /\ staff_id \in Range(rules[j].staffIds)}}

\* the three indicators of a staff of avoid_dayoff_staff: days off on the
\* free dates under the target 10, early shifts on the rule's dates under
\* min(2, their number), and 2 * off + early under max(4, dates // 6)
rest_violations(staff_id) ==
    LET working == {d \in Dates : /\ d \notin optimizer.calendar_off_dates
                                  /\ _staff_works_on_date(staff_id, d)
                                  /\ _has_shift_var(staff_id, d)}
        applicable_dates ==
            IF rest_days(staff_id) = {} THEN working
            ELSE {d \in working : _get_day_of_week(d) \in rest_days(staff_id)}
        non_applicable_dates == working \ applicable_dates
    IN (IF non_applicable_dates = {} THEN <<>>
        ELSE <<Violation("deficit",
                         {Term(staff_id, d, SHIFT_OFF, 1) :
                             d \in non_applicable_dates},
                         {}, 10, 10, 200,
                         Description("Below target day-offs on free days",
                                     staff_id, 0, ""))>>)
       \o (IF applicable_dates = {} THEN <<>>
           ELSE <<Violation("deficit",
                            {Term(staff_id, d, SHIFT_EARLY, 1) :
                                d \in applicable_dates},
                            {}, Min(2, Cardinality(applicable_dates)), 3, 100,
                            Description("Below target early shifts on rule days",
                                        staff_id, 0, ""))>>)
       \o (IF working = {} THEN <<>>
           ELSE <<Violation("deficit",
                            {Term(staff_id, d, SHIFT_OFF, 2) : d \in working}
                                \cup {Term(staff_id, d, SHIFT_EARLY, 1) :
                                         d \in working},
                            {}, Max(4, Cardinality(working) \div 6),
                            Cardinality(working) * 3, 300,
                            Description("Insufficient rest-equivalent",
                                        staff_id, 0, ""))>>)

\* with no priorityRules the pass returns at once; else it starts
\* preferred_vars and avoided_vars anew, compiles the rules that are not
\* duplicates and ends with the rest guarantee
_add_priority_rules ==
    /\ pc = "_add_priority_rules"
    /\ LET rules == constraints_config.priorityRules
       IN IF rules = <<>>
          THEN UNCHANGED optimizer
          ELSE optimizer' = [optimizer EXCEPT
                  !.preferred_vars =
                      Some(UNION {rule_preferred(rules, i) : i \in DOMAIN rules}),
                  !.avoided_vars =
                      Some(UNION {rule_avoided(rules, i) : i \in DOMAIN rules}),
                  !.violation_vars = @
                      \o Flatten([i \in DOMAIN rules |->
                                     rule_violations(rules, i)])
                      \o Flatten([k \in DOMAIN avoid_dayoff_staff |->
                                     rest_violations(avoid_dayoff_staff[k])])]
    /\ pc' = "_add_objective"
    /\ UNCHANGED <<inputs, solver, result>>

DAYOFF_BONUS_WEIGHT == 30

\* the bonus terms of the objective: 30 per day off and 15 per early shift
\* of the staff that are not backups, and the preferred and avoided terms
\* when both lists exist; the penalties are violation_vars
_add_objective ==
    /\ pc = "_add_objective"
    /\ optimizer' = [optimizer EXCEPT !.objective_terms =
           LET cells == {c \in StaffIds \X Dates :
                            /\ c[1] \notin optimizer.backup_staff_ids
                            /\ _staff_works_on_date(c[1], c[2])
                            /\ _has_shift_var(c[1], c[2])}
           IN {Term(c[1], c[2], SHIFT_OFF, DAYOFF_BONUS_WEIGHT) : c \in cells}
              \cup {Term(c[1], c[2], SHIFT_EARLY, DAYOFF_BONUS_WEIGHT \div 2) :
                       c \in cells}
              \cup (IF optimizer.preferred_vars # None
                       /\ optimizer.avoided_vars # None
                    THEN Get(optimizer.preferred_vars, {})
                         \cup {Term(t.s, t.d, t.k, 0 - t.c) :
                                  t \in Get(optimizer.avoided_vars, {})}
                    ELSE {})]
    /\ pc' = "Solve"
    /\ UNCHANGED <<inputs, solver, result>>

-----------------------------------------------------------------------------
(* CpSolver.Solve                                                          *)

\* the constraints whose variables all belong to the cell c
CellConstraints(c) ==
    {ct \in optimizer.model :
        /\ ct.op = "lin"
        /\ ct.terms # {}
        /\ \A t \in ct.terms : <<t.s, t.d>> = c}

\* the values of the four booleans of a cell that satisfy its own constraints
CellDomain(c) ==
    {K \in SUBSET Kinds : \A ct \in CellConstraints(c) : Holds(c :> K, ct)}

RECURSIVE Assignments(_)
Assignments(cells) ==
    IF cells = {} THEN {EmptyDict}
    ELSE LET c == CHOOSE cc \in cells : TRUE
         IN {(c :> K) @@ x : K \in CellDomain(c), x \in Assignments(cells \ {c})}

\* an assignment is feasible when every constraint holds and every
\* indicator has a value in its domain
Feasible(x) ==
    /\ \A ct \in optimizer.model : Holds(x, ct)
    /\ \A i \in DOMAIN optimizer.violation_vars :
           ViolationValues(x, optimizer.violation_vars[i]) # {}

Solutions == {x \in Assignments(Cells) : Feasible(x)}

\* the values of the first n indicators the solver may return with x
RECURSIVE IndicatorValues(_, _)
IndicatorValues(x, n) ==
    IF n = 0 THEN {<<>>}
    ELSE {Append(v, k) :
             v \in IndicatorValues(x, n - 1),
             k \in ViolationValues(x, optimizer.violation_vars[n])}

\* AddMaxEquality over an empty list of expressions: the model has a
\* constraint the solver may reject
HasEmptyMax == \E ct \in optimizer.model : ct.op = "maxeq" /\ ct.cond = {}

\* the solver returns a feasible assignment, proven optimal or not, or
\* reports that there is none, or runs out of time before the first one
Solve ==
    /\ pc = "Solve"
    /\ \/ \E x \in Solutions, status \in {"OPTIMAL", "FEASIBLE"} :
             \E v \in IndicatorValues(x, Len(optimizer.violation_vars)) :
                 solver' = [status |-> status, x |-> x, v |-> v]
       \/ /\ Solutions = {} \/ HasEmptyMax
          /\ solver' = [NoSolver EXCEPT !.status = "INFEASIBLE"]
       \/ solver' = [NoSolver EXCEPT !.status = "UNKNOWN"]
    /\ pc' = "_extract_solution"
    /\ UNCHANGED <<inputs, optimizer, result>>

-----------------------------------------------------------------------------
(* _extract_solution                                                       *)

VIOLATIONS_RETURNED == 20

\* the first shift_type of range(4) whose boolean is 1
SelectedShift(cell) ==
    CHOOSE k \in solver.x[cell] : \A j \in solver.x[cell] : k <= j

\* the glyph written for a cell that was not pre-filled
SolvedSymbol(cell) ==
    LET shift_type == SelectedShift(cell)
    IN IF cell \in DOMAIN optimizer.backup_unavailable_slots
       THEN IF optimizer.backup_unavailable_slots[cell].type = "holiday"
            THEN UNAVAILABLE_SYMBOL
            ELSE IF shift_type = SHIFT_WORK
                 THEN "○"
                 ELSE SHIFT_SYMBOLS(shift_type)
       ELSE SHIFT_SYMBOLS(shift_type)

\* schedule[staff_id]: an entry for every date with variables
ScheduleOf(staff_id) ==
    [date \in {d \in Dates :
                  /\ _has_shift_var(staff_id, d)
                  /\ \/ <<staff_id, d>> \in DOMAIN optimizer.prefilled_symbols
                     \/ solver.x[<<staff_id, d>>] # {}} |->
        IF <<staff_id, date>> \in DOMAIN optimizer.prefilled_symbols
        THEN optimizer.prefilled_symbols[<<staff_id, date>>]
        ELSE SolvedSymbol(<<staff_id, date>>)]

\* the violations with a positive value, in the order of violation_vars
ViolationList ==
    LET n == Len(optimizer.violation_vars)
        entries == [i \in 1..n |->
                       [description |-> optimizer.violation_vars[i].description,
                        count |-> solver.v[i],
                        penalty |-> solver.v[i] * optimizer.violation_vars[i].weight]]
    IN SelectSeq(entries, LAMBDA e : e.count > 0)

_extract_solution ==
    /\ pc = "_extract_solution"
    /\ IF solver.status \notin {"OPTIMAL", "FEASIBLE"}
       THEN result' = [NoResult EXCEPT
                          !.returned = TRUE,
                          !.error = "No feasible solution found",
                          !.status = solver.status]
       ELSE result' = [returned |-> TRUE,
                       success |-> TRUE,
                       schedule |-> [staff_id \in StaffIds |-> ScheduleOf(staff_id)],
                       violations |->
                           SubSeq(ViolationList, 1,
                                  Min(Len(ViolationList), VIOLATIONS_RETURNED)),
                       is_optimal |-> solver.status = "OPTIMAL",
                       error |-> "",
                       status |-> solver.status]
    /\ pc' = "done"
    /\ UNCHANGED <<inputs, optimizer, solver>>

-----------------------------------------------------------------------------
(* The call                                                                *)

Next ==
    \/ optimize_schedule
    \/ _create_variables
    \/ _add_basic_constraints
    \/ _add_prefilled_constraints
    \/ _add_calendar_rules
    \/ _add_backup_staff_constraints
    \/ _add_staff_status_shift_restrictions
    \/ _add_staff_group_constraints
    \/ _add_daily_limits
    \/ _add_staff_type_daily_limits
    \/ _compute_priority_rule_off_equivalent
    \/ _add_monthly_limits
    \/ _add_monthly_early_shift_limits
    \/ _add_adjacent_conflict_prevention
    \/ _add_5_day_rest_constraint
    \/ _add_post_period_constraints
    \/ _add_priority_rules
    \/ _add_objective
    \/ Solve
    \/ _extract_solution

-----------------------------------------------------------------------------
(* What the claims speak of, read from the arguments and the return value  *)

\* the staff dictionary with the given id
StaffById(staff_id) ==
    staff_members[CHOOSE i \in DOMAIN staff_members :
                      staff_members[i].id = staff_id]

\* s is employed on d: d is not before its start_period nor after its
\* end_period (a period without year and month is no period)
Employed(staff_id, date) ==
    LET st == StaffById(staff_id)
        HasDate(p) == p # None /\ Get(p, 0).ym # None
    IN /\ HasDate(st.start_period) =>
              date >= PeriodDate(Get(st.start_period, 0))
       /\ HasDate(st.end_period) =>
              date <= PeriodDate(Get(st.end_period, 0))

\* optimize_schedule has returned a schedule with success = true
Returned == result.returned /\ result.success

\* the kind the solver selected for a cell of a returned schedule
KindOf(staff_id, date) == SelectedShift(<<staff_id, date>>)

\* the glyph of the returned grid
GlyphOf(staff_id, date) == result.schedule[staff_id][date]

HasGlyph(staff_id, date) ==
    /\ staff_id \in DOMAIN result.schedule
    /\ date \in DOMAIN result.schedule[staff_id]

\* the kind a glyph stands for: an unknown glyph stands for Work
Decode(symbol) == Get(SYMBOL_TO_SHIFT(symbol), SHIFT_WORK)

\* every cell a constraint, an indicator or the objective refers to
ReferencedCells ==
    {<<t.s, t.d>> :
        t \in UNION ({ct.terms \cup ct.cond : ct \in optimizer.model}
                     \cup {optimizer.violation_vars[i].terms
                               \cup optimizer.violation_vars[i].aux :
                              i \in DOMAIN optimizer.violation_vars}
                     \cup {optimizer.objective_terms})}

-----------------------------------------------------------------------------
(* Calls with pre-filled cells and employment periods                      *)

\* the number of dates of the horizon
NumDates == 2

Horizon(n) == [i \in 1..n |-> i]

NoDaily == [enabled |-> Some(FALSE), minOffPerDay |-> None, maxOffPerDay |-> None]

\* the glyphs fed in as pre-fills: the kinds' glyphs, aliases, a decorative
\* glyph, an unknown glyph, a padded glyph, a blank and the empty string
PrefillGlyphs == {"×", "x", "△", "◇", "○", BLACK_STAR, "?", " ×", " ", ""}

\* start and end periods of the second staff: none, inside the horizon,
\* before the horizon, without year and month, and a start after the end
PeriodCases ==
    {<<None, None>>,
     <<Some(Period(Some(0), Some(2))), None>>,
     <<None, Some(Period(Some(0), None))>>,
     <<Some(Period(Some(-1), None)), Some(Period(None, Some(1)))>>,
     <<Some(Period(Some(0), Some(2))), Some(Period(Some(0), None))>>}

\* backupAssignments that name the second staff; there are no staffGroups
BackupNamingCases ==
    {<<>>,
     <<[staffId |-> "b", groupId |-> "g", isActive |-> None]>>,
     <<[staffId |-> "b", groupId |-> "g", isActive |-> Some(FALSE)]>>}

BasicRoster(periods) ==
    <<Staff("a", Some("shain"), None, None),
      Staff("b", Some("haken"), periods[1], periods[2])>>

Init ==
    \/ \E pre \in PrefillGlyphs :
          InitWith(BasicRoster(<<None, None>>), Horizon(NumDates),
                   [EmptyConstraints EXCEPT
                       !.dailyLimitsRaw = NoDaily,
                       !.prefilledSchedule = ("a" :> (1 :> pre))],
                   {})
    \/ \E entry \in {<<"a", 0>>, <<"z", 1>>, <<"b", 1>>, <<"b", NumDates>>},
          periods \in PeriodCases,
          backups \in BackupNamingCases :
          InitWith(BasicRoster(periods), Horizon(NumDates),
                   [EmptyConstraints EXCEPT
                       !.dailyLimitsRaw = NoDaily,
                       !.backupAssignments = backups,
                       !.prefilledSchedule = (entry[1] :> (entry[2] :> "x"))],
                   {})

Spec == Init /\ [][Next]_vars

-----------------------------------------------------------------------------
(* C1 *)

\* C1: in every schedule returned with success = true, for every staff s
\* and horizon date d on which s is employed, exactly one of the four kinds
\* is selected for (s, d) and the grid holds a glyph at schedule[s][d].
C1_ExactlyOneKindAndGlyph ==
    Returned =>
        \A staff_id \in StaffIds, date \in Dates :
            Employed(staff_id, date) =>
                /\ <<staff_id, date>> \in DOMAIN solver.x
                /\ Cardinality(solver.x[<<staff_id, date>>]) = 1
                /\ HasGlyph(staff_id, date)

\* a returned schedule in which both staff are employed on every date
C1_Witness ==
    /\ Returned
    /\ \A staff_id \in StaffIds, date \in Dates : Employed(staff_id, date)
    /\ \A staff_id \in StaffIds, date \in Dates : HasGlyph(staff_id, date)
    /\ \E date \in Dates : KindOf("b", date) = SHIFT_LATE

-----------------------------------------------------------------------------
(* C2 *)

\* the pre-fill entries (s, d, g) of the input
PrefillEntries ==
    LET prefilled == constraints_config.prefilledSchedule
    IN UNION {{<<staff_id, date, prefilled[staff_id][date]>> :
                  date \in DOMAIN prefilled[staff_id]} :
              staff_id \in DOMAIN prefilled}

\* the staff named by an active backup assignment
NamedBackups ==
    {constraints_config.backupAssignments[i].staffId :
        i \in {j \in DOMAIN constraints_config.backupAssignments :
                  constraints_config.backupAssignments[j].isActive
                      \in {None, Some(TRUE)}}}

\* the entry is kept as the claim words it: s in the roster and not a
\* backup, d in the horizon, g non-empty, s employed on d
KeptAsClaimed(e) ==
    /\ e[1] \in StaffIds
    /\ e[1] \notin NamedBackups
    /\ e[2] \in Dates
    /\ e[3] # ""
    /\ Employed(e[1], e[2])

-----------------------------------------------------------------------------
(* C3 *)

\* C3: for every staff s and horizon date d after s's end_period or before
\* s's start_period, no decision variable exists for (s, d), no pass refers
\* to a variable of that cell, and a returned grid has no entry for d in
\* schedule[s].
C3_NoCellOutsideEmployment ==
    \A staff_id \in StaffIds, date \in Dates :
        ~Employed(staff_id, date) =>
            /\ \A k \in Kinds : <<staff_id, date, k>> \notin optimizer.shifts
            /\ <<staff_id, date>> \notin ReferencedCells
            /\ Returned => ~HasGlyph(staff_id, date)

\* a returned schedule of a staff who left after the first date: the grid
\* has the first date and lacks the second
C3_Witness ==
    /\ Returned
    /\ ~Employed("b", 2)
    /\ HasGlyph("b", 1)
    /\ ~HasGlyph("b", 2)
    /\ pc = "done"

-----------------------------------------------------------------------------
(* Calls with calendar rules                                               *)

CalendarRule(date, must_day_off, must_work) ==
    [date |-> date, must_day_off |-> must_day_off, must_work |-> must_work]

EarlyPrefs(dates, default) == [dates |-> dates, default |-> default]

\* earlyShiftPreferences of the first staff: none, a true entry for the
\* rule's date, a false entry beside a true default, a true default alone,
\* and a true entry for another date
EarlyPrefCases ==
    {EmptyDict,
     "a" :> EarlyPrefs(1 :> TRUE, None),
     "a" :> EarlyPrefs(1 :> FALSE, Some(TRUE)),
     "a" :> EarlyPrefs(EmptyDict, Some(TRUE)),
     "a" :> EarlyPrefs(2 :> TRUE, None)}

\* pre-fills on the date of a must_day_off rule
CalendarOffPrefills ==
    {EmptyDict, "a" :> (1 :> "x"), "a" :> (1 :> "s"), "a" :> (1 :> "◇"),
     "b" :> (1 :> "X")}

\* pre-fills on the date of a must_work rule
CalendarWorkPrefills ==
    {EmptyDict, "a" :> (1 :> "○"), "a" :> (1 :> BLACK_STAR),
     "a" :> (1 :> "×")}

\* the second staff covers the group of the first, or nobody does
CoverageCases ==
    {<<>>, <<[staffId |-> "b", groupId |-> "g", isActive |-> None]>>}

InitCalendar ==
    \/ \E must_work \in BOOLEAN,
          prefs \in EarlyPrefCases,
          pre \in CalendarOffPrefills :
          InitWith(BasicRoster(<<None, None>>), Horizon(NumDates),
                   [EmptyConstraints EXCEPT
                       !.dailyLimitsRaw = NoDaily,
                       !.calendarRules = <<CalendarRule(1, TRUE, must_work)>>,
                       !.earlyShiftPreferences = prefs,
                       !.prefilledSchedule = pre],
                   {})
    \/ \E date \in {0, 1},
          pre \in CalendarWorkPrefills,
          backups \in CoverageCases,
          periods \in {<<None, None>>,
                       <<Some(Period(Some(0), Some(2))), None>>} :
          InitWith(BasicRoster(periods), Horizon(NumDates),
                   [EmptyConstraints EXCEPT
                       !.dailyLimitsRaw = NoDaily,
                       !.calendarRules = <<CalendarRule(date, FALSE, TRUE)>>,
                       !.staffGroups =
                           <<[id |-> "g", name |-> "G", members |-> {"a"}]>>,
                       !.backupAssignments = backups,
                       !.prefilledSchedule = pre],
                   {})

SpecCalendar == InitCalendar /\ [][Next]_vars

-----------------------------------------------------------------------------
(* C4 *)

\* the horizon dates whose calendar rule has must_day_off set
ClaimedOffDates ==
    {constraints_config.calendarRules[i].date :
        i \in {j \in DOMAIN constraints_config.calendarRules :
                  constraints_config.calendarRules[j].must_day_off}} \cap Dates

\* an early-shift preference for the date: the date's entry is true, or
\* the default is true when the date has no entry
EarlyPreference(staff_id, date) ==
    LET prefs == constraints_config.earlyShiftPreferences
    IN /\ staff_id \in DOMAIN prefs
       /\ IF date \in DOMAIN prefs[staff_id].dates
          THEN prefs[staff_id].dates[date]
          ELSE prefs[staff_id].default = Some(TRUE)

\* the weight-1000 early-preference violation of the cell is positive
EarlyPrefPaid(staff_id, date) ==
    \E i \in DOMAIN optimizer.violation_vars :
        /\ optimizer.violation_vars[i].weight = 1000
        /\ optimizer.violation_vars[i].description =
               Description("early_pref", staff_id, date, "")
        /\ solver.v[i] > 0

\* the cell shows an alias of the kind, as it was pre-filled
PrefilledAlias(staff_id, date, kind) ==
    \E e \in PrefillEntries :
        /\ e[1] = staff_id /\ e[2] = date
        /\ GlyphOf(staff_id, date) = Strip(e[3])
        /\ SYMBOL_TO_SHIFT(Strip(e[3])) = Some(kind)

\* C4 as stated: on every must_day_off date of the horizon, in every
\* returned schedule, an employed staff without an early-shift preference
\* has the glyph of Off, and one with the preference has the glyph of Early
\* unless the weight-1000 violation of the cell is positive.
C4_AsStated ==
    Returned =>
        \A date \in ClaimedOffDates, staff_id \in StaffIds :
            Employed(staff_id, date) =>
                IF EarlyPreference(staff_id, date)
                THEN \/ GlyphOf(staff_id, date) = "△"
                     \/ EarlyPrefPaid(staff_id, date)
                ELSE GlyphOf(staff_id, date) = "×"

\* C4, amended: on every must_day_off date of the horizon, in every
\* returned schedule, an employed staff without an early-shift preference
\* has kind Off and the glyph of Off or the alias of Off the cell was
\* pre-filled with; one with the preference has kind Early and the glyph of
\* Early or the alias of Early the cell was pre-filled with, unless the
\* weight-1000 violation of the cell is positive.
C4_CalendarOffGlyphs ==
    Returned =>
        \A date \in ClaimedOffDates, staff_id \in StaffIds :
            Employed(staff_id, date) =>
                IF EarlyPreference(staff_id, date)
                THEN \/ /\ KindOf(staff_id, date) = SHIFT_EARLY
                        /\ \/ GlyphOf(staff_id, date) = "△"
                           \/ PrefilledAlias(staff_id, date, SHIFT_EARLY)
                     \/ /\ KindOf(staff_id, date) # SHIFT_EARLY
                        /\ EarlyPrefPaid(staff_id, date)
                ELSE /\ KindOf(staff_id, date) = SHIFT_OFF
                     /\ \/ GlyphOf(staff_id, date) = "×"
                        \/ PrefilledAlias(staff_id, date, SHIFT_OFF)

\* a returned schedule of a must_day_off date on which the staff whose
\* default preference is true has the glyph of Early and the other staff
\* the glyph of Off
C4_Witness ==
    /\ Returned
    /\ 1 \in ClaimedOffDates
    /\ "a" \in DOMAIN constraints_config.earlyShiftPreferences
    /\ 1 \notin DOMAIN constraints_config.earlyShiftPreferences["a"].dates
    /\ EarlyPreference("a", 1)
    /\ ~EarlyPreference("b", 1)
    /\ GlyphOf("a", 1) = "△"
    /\ GlyphOf("b", 1) = "×"

-----------------------------------------------------------------------------
(* C5 *)

\* the horizon dates whose calendar rule has must_work set
ClaimedWorkDates ==
    {constraints_config.calendarRules[i].date :
        i \in {j \in DOMAIN constraints_config.calendarRules :
                  constraints_config.calendarRules[j].must_work}} \cap Dates

\* the glyphs of Work: the empty glyph, and the explicit one of the cells
\* of a backup
WorkGlyphs == {"", "○"}

\* C5 as stated: on every horizon date whose calendar rule has must_work
\* set, every staff employed on the date has the glyph of Work in every
\* returned schedule.
C5_AsStated ==
    Returned =>
        \A date \in ClaimedWorkDates, staff_id \in StaffIds :
            Employed(staff_id, date) =>
                GlyphOf(staff_id, date) \in WorkGlyphs

\* C5, amended: on every horizon date whose calendar rule has must_work set
\* and must_day_off not set, every staff employed on the date has kind Work
\* in every returned schedule, and its glyph is the glyph of Work or the
\* alias of Work the cell was pre-filled with.
C5_CalendarWorkGlyphs ==
    Returned =>
        \A date \in ClaimedWorkDates \ ClaimedOffDates, staff_id \in StaffIds :
            Employed(staff_id, date) =>
                /\ KindOf(staff_id, date) = SHIFT_WORK
                /\ \/ GlyphOf(staff_id, date) \in WorkGlyphs
                   \/ PrefilledAlias(staff_id, date, SHIFT_WORK)

\* a returned schedule of a must_work date on which both staff have the
\* glyph of Work, the backup the explicit one
C5_Witness ==
    /\ Returned
    /\ 1 \in ClaimedWorkDates \ ClaimedOffDates
    /\ Employed("b", 1)
    /\ GlyphOf("a", 1) = ""
    /\ GlyphOf("b", 1) = "○"

-----------------------------------------------------------------------------
(* Calls with backup assignments                                           *)

BackupAssignment(staffId, groupId, isActive) ==
    [staffId |-> staffId, groupId |-> groupId, isActive |-> isActive]

StaffGroup(id, name, members) ==
    [id |-> id, name |-> name, members |-> members]

\* hardConstraints: nothing said, backupCoverage on, backupCoverage off
CoverageModes ==
    {EmptyDict, "backupCoverage" :> TRUE, "backupCoverage" :> FALSE}

\* staffGroups and backupAssignments the pass does not act on: an inactive
\* assignment, an unknown group, a group without a member of the roster,
\* no groups at all, and a backup that is not in the roster
SkippedCoverageCases ==
    {<<<<StaffGroup("g", "G", {"a"})>>,
       <<BackupAssignment("b", "g", Some(FALSE))>>>>,
     <<<<StaffGroup("g", "G", {"a"})>>,
       <<BackupAssignment("b", "h", Some(TRUE))>>>>,
     <<<<StaffGroup("g", "G", {"z"})>>,
       <<BackupAssignment("b", "g", Some(TRUE))>>>>,
     <<<<>>, <<BackupAssignment("b", "g", Some(TRUE))>>>>,
     <<<<StaffGroup("g", "G", {"a"})>>,
       <<BackupAssignment("z", "g", Some(TRUE))>>>>}

\* pre-fills of the member of the group on the first date
MemberPrefills == {EmptyDict, "a" :> (1 :> "×"), "a" :> (1 :> "△")}

InitBackup ==
    \/ \E mode \in CoverageModes,
          holidays \in {{}, {1}},
          pre \in MemberPrefills :
          InitWith(BasicRoster(<<None, None>>), Horizon(NumDates),
                   [EmptyConstraints EXCEPT
                       !.dailyLimitsRaw = NoDaily,
                       !.staffGroups = <<StaffGroup("g", "G", {"a"})>>,
                       !.backupAssignments =
                           <<BackupAssignment("b", "g", Some(TRUE))>>,
                       !.hardConstraints = mode,
                       !.prefilledSchedule = pre],
                   holidays)
    \/ \E case \in SkippedCoverageCases,
          mode \in {EmptyDict, "backupCoverage" :> FALSE} :
          InitWith(BasicRoster(<<None, None>>), Horizon(NumDates),
                   [EmptyConstraints EXCEPT
                       !.dailyLimitsRaw = NoDaily,
                       !.staffGroups = case[1],
                       !.backupAssignments = case[2],
                       !.hardConstraints = mode],
                   {1})
    \/ \E rules \in {<<>>, <<CalendarRule(1, TRUE, FALSE)>>},
          periods \in {<<None, None>>,
                       <<Some(Period(Some(0), Some(2))), None>>} :
          InitWith(BasicRoster(periods), Horizon(NumDates),
                   [EmptyConstraints EXCEPT
                       !.dailyLimitsRaw = NoDaily,
                       !.calendarRules = rules,
                       !.staffGroups = <<StaffGroup("g", "G", {"a"})>>,
                       !.backupAssignments =
                           <<BackupAssignment("b", "g", None)>>],
                   {1, 2})

SpecBackup == InitBackup /\ [][Next]_vars

-----------------------------------------------------------------------------
(* C6 *)

\* the active backup assignments of the input
ActiveAssignments ==
    {i \in DOMAIN constraints_config.backupAssignments :
        constraints_config.backupAssignments[i].isActive
            \in {None, Some(TRUE)}}

\* the members of the group an assignment covers that are in the roster
RosterMembers(i) ==
    UNION {constraints_config.staffGroups[j].members :
              j \in {k \in DOMAIN constraints_config.staffGroups :
                        constraints_config.staffGroups[k].id =
                            constraints_config.backupAssignments[i].groupId}}
        \cap StaffIds

\* backup coverage is HARD: the configuration does not turn it off
CoverageIsHard ==
    LET hard == constraints_config.hardConstraints
    IN "backupCoverage" \in DOMAIN hard => hard["backupCoverage"]

\* the dates of an assignment the claims speak of: not calendar-off, and
\* the backup is employed
CoverageDates(i) ==
    LET b == constraints_config.backupAssignments[i].staffId
    IN IF b \in StaffIds
       THEN {date \in Dates \ ClaimedOffDates : Employed(b, date)}
       ELSE {}

\* some member of the covered group has the glyph of Off on the date
MemberOff(i, date) ==
    \E m \in RosterMembers(i) : HasGlyph(m, date) /\ GlyphOf(m, date) = "×"

\* C6: with backup coverage HARD, in every returned schedule, for every
\* active backup assignment (b, G) and every date that is not calendar-off
\* and on which b is employed: if a member of G in the roster has the glyph
\* of Off on the date, b has kind Work and the glyph of a working backup;
\* and no violation of the list says that a backup is not covering.
C6_BackupCoversHard ==
    (Returned /\ CoverageIsHard) =>
        /\ \A i \in ActiveAssignments : \A date \in CoverageDates(i) :
               LET b == constraints_config.backupAssignments[i].staffId
               IN MemberOff(i, date) =>
                      /\ solver.x[<<b, date>>] = {SHIFT_WORK}
                      /\ GlyphOf(b, date) = "○"
        /\ \A n \in DOMAIN result.violations :
               result.violations[n].description.text # "Backup not covering"

\* a returned schedule under HARD coverage in which the solver gave the
\* member of the group a day off and the backup works
C6_Witness ==
    /\ Returned
    /\ CoverageIsHard
    /\ constraints_config.prefilledSchedule = EmptyDict
    /\ 1 \in ActiveAssignments
    /\ 2 \in CoverageDates(1)
    /\ MemberOff(1, 2)
    /\ GlyphOf("b", 2) = "○"

-----------------------------------------------------------------------------
(* C7 *)

\* the active assignments whose backup is in the roster and whose group has
\* a member in the roster
CoveringAssignments ==
    {i \in ActiveAssignments :
        /\ constraints_config.backupAssignments[i].staffId \in StaffIds
        /\ RosterMembers(i) # {}}

\* C7: in every returned schedule, for every active backup assignment and
\* every date that is not calendar-off and on which the backup is employed:
\* when no member of the covered group has the glyph of Off on the date,
\* the cell of the backup holds the unavailable glyph.
C7_UnavailableWithoutDuty ==
    Returned =>
        \A i \in CoveringAssignments : \A date \in CoverageDates(i) :
            ~MemberOff(i, date) =>
                GlyphOf(constraints_config.backupAssignments[i].staffId, date)
                    = UNAVAILABLE_SYMBOL

-----------------------------------------------------------------------------
(* C8 *)

\* the holidays of the external calendar an assignment's backup is employed
\* on, calendar-off dates apart
HolidayDates(i) == CoverageDates(i) \cap japanese_holidays

\* C8 as stated: in every returned schedule, for every active backup
\* assignment and every holiday of the external calendar in the horizon
\* that is not calendar-off and on which the backup is employed, the backup
\* has kind Off and the unavailable glyph, whatever the covered group does
\* and whether coverage is HARD or SOFT.
C8_AsStated ==
    Returned =>
        \A i \in ActiveAssignments : \A date \in HolidayDates(i) :
            LET b == constraints_config.backupAssignments[i].staffId
            IN /\ solver.x[<<b, date>>] = {SHIFT_OFF}
               /\ GlyphOf(b, date) = UNAVAILABLE_SYMBOL

\* C8, amended: in every returned schedule, for every active backup
\* assignment whose group has a member in the roster and every holiday of
\* the external calendar in the horizon that is not calendar-off and on
\* which the backup is employed, the backup has kind Off and the
\* unavailable glyph, whatever the covered group does and whether coverage
\* is HARD or SOFT.
C8_HolidayUnavailable ==
    Returned =>
        \A i \in CoveringAssignments : \A date \in HolidayDates(i) :
            LET b == constraints_config.backupAssignments[i].staffId
            IN /\ solver.x[<<b, date>>] = {SHIFT_OFF}
               /\ GlyphOf(b, date) = UNAVAILABLE_SYMBOL

\* a returned schedule under SOFT coverage in which the backup is
\* unavailable on a holiday although the member of the group is off
C8_Witness ==
    /\ Returned
    /\ ~CoverageIsHard
    /\ 1 \in CoveringAssignments
    /\ 1 \in HolidayDates(1)
    /\ MemberOff(1, 1)
    /\ KindOf("b", 1) = SHIFT_OFF
    /\ GlyphOf("b", 1) = UNAVAILABLE_SYMBOL

-----------------------------------------------------------------------------
(* Calls with a horizon of one rest window                                 *)

\* the number of dates of the horizon of these calls
NumRestDates == 6

SingleRoster(end_period) == <<Staff("a", Some("shain"), None, end_period)>>

RestHard == "fiveDayRest" :> TRUE

\* the member of the covered group is off on the first date only
MemberOffFirst == [d \in 1..NumRestDates |-> IF d = 1 THEN "×" ELSE "○"]

InitRest ==
    \/ \E pre \in {EmptyDict, "a" :> (1 :> "x")} :
          InitWith(SingleRoster(None), Horizon(NumRestDates),
                   [EmptyConstraints EXCEPT
                       !.dailyLimitsRaw = NoDaily,
                       !.hardConstraints = RestHard,
                       !.prefilledSchedule = pre],
                   {})
    \/ \E mode \in {EmptyDict, "fiveDayRest" :> FALSE} :
          InitWith(SingleRoster(None), Horizon(NumRestDates),
                   [EmptyConstraints EXCEPT
                       !.dailyLimitsRaw = NoDaily,
                       !.hardConstraints = mode,
                       !.prefilledSchedule =
                           "a" :> (1 :> "○" @@ 2 :> "○" @@ 3 :> "○")],
                   {})
    \/ InitWith(SingleRoster(Some(Period(Some(0), Some(NumRestDates - 1)))),
                Horizon(NumRestDates),
                [EmptyConstraints EXCEPT
                    !.dailyLimitsRaw = NoDaily,
                    !.hardConstraints = RestHard,
                    !.prefilledSchedule = "a" :> (1 :> "○" @@ 2 :> "○")],
                {})
    \/ InitWith(BasicRoster(<<None, None>>), Horizon(NumRestDates),
                [EmptyConstraints EXCEPT
                    !.dailyLimitsRaw = NoDaily,
                    !.hardConstraints = RestHard,
                    !.staffGroups = <<StaffGroup("g", "G", {"a"})>>,
                    !.backupAssignments =
                        <<BackupAssignment("b", "g", Some(TRUE))>>,
                    !.prefilledSchedule = "a" :> MemberOffFirst],
                {2})

SpecRest == InitRest /\ [][Next]_vars

-----------------------------------------------------------------------------
(* C9 *)

\* the 6-day-rest constraint is HARD: the configuration turns it on
RestIsHard ==
    LET hard == constraints_config.hardConstraints
    IN "fiveDayRest" \in DOMAIN hard /\ hard["fiveDayRest"]

\* the windows of 6 consecutive horizon dates on all of which the staff is
\* employed, as sets of dates
EmployedWindows(staff_id) ==
    {{date_range[j] : j \in i..(i + 5)} :
        i \in {k \in 1..(Len(date_range) - 5) :
                  \A j \in k..(k + 5) : Employed(staff_id, date_range[j])}}

\* C9 as stated: with the 6-day-rest constraint HARD, in every returned
\* schedule and for every staff, every window of 6 consecutive horizon dates
\* on all of which the staff is employed has a date with the glyph of Off.
C9_AsStated ==
    (Returned /\ RestIsHard) =>
        \A staff_id \in StaffIds : \A window \in EmployedWindows(staff_id) :
            \E date \in window : GlyphOf(staff_id, date) = "×"

\* C9, amended: with the 6-day-rest constraint HARD, in every returned
\* schedule and for every staff, every window of 6 consecutive horizon dates
\* on all of which the staff is employed has a date of kind Off, whose glyph
\* is the glyph of Off, the alias of Off the cell was pre-filled with, or
\* the unavailable glyph of a backup.
C9_RestInEveryWindow ==
    (Returned /\ RestIsHard) =>
        \A staff_id \in StaffIds : \A window \in EmployedWindows(staff_id) :
            \E date \in window :
                /\ solver.x[<<staff_id, date>>] = {SHIFT_OFF}
                /\ \/ GlyphOf(staff_id, date) = "×"
                   \/ PrefilledAlias(staff_id, date, SHIFT_OFF)
                   \/ /\ GlyphOf(staff_id, date) = UNAVAILABLE_SYMBOL
                      /\ staff_id \in NamedBackups

\* a returned schedule under the HARD constraint whose only day off of the
\* window was chosen by the solver, the staff having early shifts besides
C9_Witness ==
    /\ Returned
    /\ RestIsHard
    /\ constraints_config.prefilledSchedule = EmptyDict
    /\ 1..6 \in EmployedWindows("a")
    /\ GlyphOf("a", 4) = "×"
    /\ GlyphOf("a", 1) = "△"
    /\ \A date \in (1..6) \ {4} : GlyphOf("a", date) # "×"

-----------------------------------------------------------------------------
(* Calls with monthly limits                                               *)

\* the number of dates of the horizon of these calls
NumMonthDates == 3

MonthlyLimit(minCount, maxCount, excludeCalendarRules, isHardConstraint) ==
    [minCount |-> minCount, maxCount |-> maxCount,
     excludeCalendarRules |-> excludeCalendarRules,
     isHardConstraint |-> isHardConstraint]

\* pre-fills of the first date: none, a day off, its alias, an early
\* shift and a star
MonthlyPrefills ==
    {EmptyDict, "a" :> (1 :> "×"), "a" :> (1 :> "x"), "a" :> (1 :> "△"),
     "a" :> (1 :> BLACK_STAR)}

\* limits the pass has to cut down: more days than the horizon has, and a
\* minimum above the maximum
OversizedLimits ==
    {<<Some(NumMonthDates + 2), None>>, <<None, Some(NumMonthDates + 2)>>,
     <<Some(2), Some(1)>>}

InitMonthly ==
    \/ \E minCount \in {None, Some(1), Some(2)},
          maxCount \in {None, Some(1), Some(2)},
          pre \in MonthlyPrefills :
          InitWith(SingleRoster(None), Horizon(NumMonthDates),
                   [EmptyConstraints EXCEPT
                       !.dailyLimitsRaw = NoDaily,
                       !.monthlyLimit =
                           MonthlyLimit(minCount, maxCount, None, Some(TRUE)),
                       !.prefilledSchedule = pre],
                   {})
    \/ \E exclude \in {None, Some(FALSE)},
          maxCount \in {Some(1), Some(2)},
          prefs \in {EmptyDict, "a" :> EarlyPrefs(EmptyDict, Some(TRUE))} :
          InitWith(SingleRoster(None), Horizon(NumMonthDates),
                   [EmptyConstraints EXCEPT
                       !.dailyLimitsRaw = NoDaily,
                       !.calendarRules = <<CalendarRule(1, TRUE, FALSE)>>,
                       !.earlyShiftPreferences = prefs,
                       !.monthlyLimit =
                           MonthlyLimit(Some(1), maxCount, exclude, Some(TRUE))],
                   {})
    \/ \E maxCount \in {Some(1), Some(2), Some(3)} :
          InitWith(SingleRoster(Some(Period(Some(0), Some(NumMonthDates - 1)))),
                   Horizon(NumMonthDates),
                   [EmptyConstraints EXCEPT
                       !.dailyLimitsRaw = NoDaily,
                       !.monthlyLimit =
                           MonthlyLimit(Some(1), maxCount, None, Some(TRUE))],
                   {})
    \/ \E limits \in OversizedLimits :
          InitWith(SingleRoster(None), Horizon(NumMonthDates),
                   [EmptyConstraints EXCEPT
                       !.dailyLimitsRaw = NoDaily,
                       !.monthlyLimit =
                           MonthlyLimit(limits[1], limits[2], None, Some(TRUE))],
                   {})
    \/ \E mode \in {EmptyDict, "monthlyLimits" :> TRUE} :
          InitWith(SingleRoster(None), Horizon(NumMonthDates),
                   [EmptyConstraints EXCEPT
                       !.dailyLimitsRaw = NoDaily,
                       !.hardConstraints = mode,
                       !.monthlyLimit =
                           MonthlyLimit(Some(1), Some(1), None, None)],
                   {})
    \/ InitWith(BasicRoster(<<None, None>>), Horizon(NumMonthDates),
                [EmptyConstraints EXCEPT
                    !.dailyLimitsRaw = NoDaily,
                    !.staffGroups = <<StaffGroup("g", "G", {"a"})>>,
                    !.backupAssignments =
                        <<BackupAssignment("b", "g", Some(TRUE))>>,
                    !.monthlyLimit =
                        MonthlyLimit(Some(1), Some(1), None, Some(TRUE)),
                    !.prefilledSchedule = "a" :> (1 :> "×" @@ 2 :> "○")],
                {})

SpecMonthly == InitMonthly /\ [][Next]_vars

-----------------------------------------------------------------------------
(* C10 *)

\* monthly limits are configured and HARD
MonthlyIsHard ==
    LET hard == constraints_config.hardConstraints
    IN /\ ~MonthlyLimitAbsent
       /\ \/ constraints_config.monthlyLimit.isHardConstraint = Some(TRUE)
          \/ "monthlyLimits" \in DOMAIN hard /\ hard["monthlyLimits"]

\* the effective dates of a staff: the employed dates, minus the
\* calendar-off dates when excludeCalendarRules is true (the default)
EffectiveDates(staff_id) ==
    {date \in Dates : Employed(staff_id, date)}
        \ (IF constraints_config.monthlyLimit.excludeCalendarRules
                  \in {None, Some(TRUE)}
           THEN ClaimedOffDates
           ELSE {})

\* the pre-filled star glyphs of a staff on its effective dates
PrefilledStars(staff_id) ==
    {e \in PrefillEntries :
        /\ e[1] = staff_id
        /\ e[2] \in EffectiveDates(staff_id)
        /\ Strip(e[3]) \in {BLACK_STAR, WHITE_STAR}}

\* 2 * (Off cells) + (Early cells) + 2 * (pre-filled star glyphs)
OffEquivalent(staff_id) ==
    2 * Cardinality({date \in EffectiveDates(staff_id) :
                        KindOf(staff_id, date) = SHIFT_OFF})
    + Cardinality({date \in EffectiveDates(staff_id) :
                      KindOf(staff_id, date) = SHIFT_EARLY})
    + 2 * Cardinality(PrefilledStars(staff_id))

\* the limits of a staff from a min and a max of the whole horizon: for a
\* staff employed on a part of the horizon, min = floor(working_days / 4.25)
\* and max = max(min + 1, floor(max * working_days / total_days))
LimitsFrom(staff_id, min_count, max_count) ==
    LET working_days == Cardinality({date \in Dates : Employed(staff_id, date)})
        total_days == Cardinality(Dates)
        part_min == (working_days * 100) \div 425
    IN IF 0 < working_days /\ working_days < total_days
       THEN [min |-> part_min,
             max |-> Max(part_min + 1, (max_count * working_days) \div total_days)]
       ELSE [min |-> min_count, max |-> max_count]

\* min and max as configured: minCount (0 when absent) and maxCount (999
\* when absent)
ConfiguredLimits(staff_id) ==
    LimitsFrom(staff_id,
               Get(constraints_config.monthlyLimit.minCount, 0),
               Get(constraints_config.monthlyLimit.maxCount, 999))

\* min and max as configured, neither above the number of horizon dates
\* that are not calendar-off, and min not above max
ProratedLimits(staff_id) ==
    LET available == Cardinality(Dates \ ClaimedOffDates)
        max_count == Min(Get(constraints_config.monthlyLimit.maxCount, 999),
                         available)
        min_count == Min(Min(Get(constraints_config.monthlyLimit.minCount, 0),
                             available),
                         max_count)
    IN LimitsFrom(staff_id, min_count, max_count)

\* C10 as stated: with monthly limits HARD, for every staff that is not a
\* backup and every returned schedule, 2 * (Off cells) + (Early cells)
\* + 2 * (pre-filled star glyphs) over the effective dates of the staff lies
\* in [2 * min, 2 * max] for the (prorated) min and max of the staff.
C10_AsStated ==
    (Returned /\ MonthlyIsHard) =>
        \A staff_id \in StaffIds \ NamedBackups :
            /\ 2 * ConfiguredLimits(staff_id).min <= OffEquivalent(staff_id)
            /\ OffEquivalent(staff_id) <= 2 * ConfiguredLimits(staff_id).max

\* C10, amended: with monthly limits HARD, for every staff that is not a
\* backup and every returned schedule, 2 * (Off cells) + (Early cells)
\* + 2 * (pre-filled star glyphs) over the effective dates of the staff lies
\* in [2 * min, 2 * max] for the (prorated) min and max of the staff, min and
\* max being first capped at the number of horizon dates that are not
\* calendar-off and min lowered to max when it exceeds it; pre-filled cells
\* of kind Off and Early are part of the count.
C10_MonthlyOffEquivalent ==
    (Returned /\ MonthlyIsHard) =>
        \A staff_id \in StaffIds \ NamedBackups :
            /\ 2 * ProratedLimits(staff_id).min <= OffEquivalent(staff_id)
            /\ OffEquivalent(staff_id) <= 2 * ProratedLimits(staff_id).max

\* a returned schedule under HARD limits of one day off a month in which
\* the pre-filled early shift and one more early shift fill the limit
C10_Witness ==
    /\ Returned
    /\ MonthlyIsHard
    /\ <<"a", 1, "△">> \in PrefillEntries
    /\ ProratedLimits("a") = [min |-> 1, max |-> 1]
    /\ KindOf("a", 1) = SHIFT_EARLY
    /\ \E date \in Dates \ {1} : KindOf("a", date) = SHIFT_EARLY
    /\ OffEquivalent("a") = 2

-----------------------------------------------------------------------------
(* Calls with daily limits                                                 *)

\* the number of dates of the horizon of these calls
NumDailyDates == 1

DailyLimits(enabled, minOffPerDay, maxOffPerDay) ==
    [enabled |-> enabled, minOffPerDay |-> minOffPerDay,
     maxOffPerDay |-> maxOffPerDay]

\* three staff, the third with an employment period
TrioRoster(periods) ==
    <<Staff("a", Some("shain"), None, None),
      Staff("b", Some("haken"), None, None),
      Staff("c", Some("part"), periods[1], periods[2])>>

DailyHard == "dailyLimits" :> TRUE

InitDaily ==
    \/ \E minOff \in {None, Some(0), Some(1), Some(2), Some(3)},
          maxOff \in {None, Some(1), Some(2), Some(3)} :
          InitWith(TrioRoster(<<None, None>>), Horizon(NumDailyDates),
                   [EmptyConstraints EXCEPT
                       !.dailyLimitsRaw = DailyLimits(None, minOff, maxOff),
                       !.hardConstraints = DailyHard],
                   {})
    \/ \E mode \in {EmptyDict, DailyHard},
          enabled \in {Some(TRUE), Some(FALSE)} :
          InitWith(TrioRoster(<<None, None>>), Horizon(NumDailyDates),
                   [EmptyConstraints EXCEPT
                       !.dailyLimitsRaw = DailyLimits(enabled, Some(1), Some(1)),
                       !.hardConstraints = mode],
                   {})
    \/ \E rules \in {<<CalendarRule(1, FALSE, TRUE)>>,
                     <<CalendarRule(1, TRUE, FALSE)>>},
          periods \in {<<None, None>>, <<Some(Period(Some(0), Some(2))), None>>} :
          InitWith(TrioRoster(periods), Horizon(NumDailyDates),
                   [EmptyConstraints EXCEPT
                       !.calendarRules = rules,
                       !.dailyLimitsRaw = DailyLimits(None, Some(1), Some(2)),
                       !.hardConstraints = DailyHard],
                   {})
    \/ \E periods \in {<<None, None>>, <<Some(Period(Some(0), Some(2))), None>>},
          backups \in {<<>>, <<BackupAssignment("b", "g", Some(TRUE))>>} :
          InitWith(TrioRoster(periods), Horizon(NumDailyDates),
                   [EmptyConstraints EXCEPT
                       !.staffGroups = <<StaffGroup("g", "G", {"a"})>>,
                       !.backupAssignments = backups,
                       !.dailyLimitsRaw = DailyLimits(None, Some(1), Some(2)),
                       !.hardConstraints = DailyHard],
                   {})

SpecDaily == InitDaily /\ [][Next]_vars

-----------------------------------------------------------------------------
(* C11 *)

\* daily limits are enabled and HARD
DailyIsHard ==
    LET hard == constraints_config.hardConstraints
    IN /\ constraints_config.dailyLimitsRaw.enabled \in {None, Some(TRUE)}
       /\ "dailyLimits" \in DOMAIN hard /\ hard["dailyLimits"]

\* the staff that no accepted backup assignment names
NonBackupStaff ==
    StaffIds \ {constraints_config.backupAssignments[i].staffId :
                   i \in CoveringAssignments}

\* the horizon dates without a must_day_off or must_work rule
UnruledDates == Dates \ (ClaimedOffDates \cup ClaimedWorkDates)

\* the number of non-backup employed staff with Off on the date
OffCount(date) ==
    Cardinality({staff_id \in NonBackupStaff :
                    /\ Employed(staff_id, date)
                    /\ KindOf(staff_id, date) = SHIFT_OFF})

-----------------------------------------------------------------------------
(* Calls with staff groups                                                 *)

GroupsHard == "staffGroups" :> TRUE

\* staffGroups.  Three members, two members, one member of the roster
\* beside an unknown id, and two groups that share a member
GroupCases ==
    {<<StaffGroup("g", "G", {"a", "b", "c"})>>,
     <<StaffGroup("g", "G", {"a", "b"})>>,
     <<StaffGroup("g", "G", {"a", "z"})>>,
     <<StaffGroup("g", "G", {"a", "b"}), StaffGroup("h", "H", {"b", "c"})>>}

\* the family HARD, SOFT by default and SOFT by name; a custom weight; a
\* member outside its employment; a must_day_off date; two members
\* pre-filled with Off on the date
InitGroups ==
    \/ \E groups \in GroupCases,
          mode \in {EmptyDict, GroupsHard, "staffGroups" :> FALSE} :
          InitWith(TrioRoster(<<None, None>>), Horizon(NumDailyDates),
                   [EmptyConstraints EXCEPT
                       !.staffGroups = groups,
                       !.dailyLimitsRaw = NoDaily,
                       !.hardConstraints = mode],
                   {})
    \/ \E weights \in {EmptyDict, "staffGroup" :> 7},
          periods \in {<<None, None>>, <<Some(Period(Some(0), Some(2))), None>>},
          rules \in {<<>>, <<CalendarRule(1, TRUE, FALSE)>>},
          pre \in {EmptyDict, "a" :> (1 :> "×") @@ "b" :> (1 :> "×"),
                   "a" :> (1 :> "△")} :
          InitWith(TrioRoster(periods), Horizon(NumDailyDates),
                   [EmptyConstraints EXCEPT
                       !.staffGroups = <<StaffGroup("g", "G", {"a", "b", "c"})>>,
                       !.calendarRules = rules,
                       !.prefilledSchedule = pre,
                       !.dailyLimitsRaw = NoDaily,
                       !.hardConstraints = GroupsHard,
                       !.penaltyWeights = weights],
                   {})

SpecGroups == InitGroups /\ [][Next]_vars

-----------------------------------------------------------------------------
(* C12 *)

GroupsAreHard ==
    LET hard == constraints_config.hardConstraints
    IN "staffGroups" \in DOMAIN hard /\ hard["staffGroups"]

\* the groups with at least two members of the roster
RosterGroups ==
    {i \in DOMAIN constraints_config.staffGroups :
        Cardinality(constraints_config.staffGroups[i].members \cap StaffIds) >= 2}

\* the members of the group employed on the date that show the glyph
MembersShowing(i, date, symbol) ==
    {m \in constraints_config.staffGroups[i].members \cap StaffIds :
        /\ Employed(m, date)
        /\ HasGlyph(m, date)
        /\ GlyphOf(m, date) = symbol}

\* the weight of the staff-group family: penaltyWeights.staffGroup, 100 when
\* it is missing
StaffGroupWeight ==
    LET weights == constraints_config.penaltyWeights
    IN IF "staffGroup" \in DOMAIN weights THEN weights["staffGroup"] ELSE 100

\* the early-shift violation indicator of the group on the date is positive
\* and carries the weight
EarlyIndicatorPositive(i, date, weight) ==
    \E k \in DOMAIN optimizer.violation_vars :
        /\ optimizer.violation_vars[k].description =
               Description("Staff group early shift violation", "", date,
                           constraints_config.staffGroups[i].name)
        /\ optimizer.violation_vars[k].weight = weight
        /\ solver.v[k] > 0

-----------------------------------------------------------------------------
(* Calls with per-type daily limits                                        *)

\* two staff of one status, a third of another with an employment period
PairRoster(periods) ==
    <<Staff("a", Some("shain"), None, None),
      Staff("b", Some("shain"), None, None),
      Staff("c", Some("haken"), periods[1], periods[2])>>

\* limits of the first status: each side given or missing, HARD asked or
\* not; a minimum, among them a negative one, one above the maximum and one
\* above the number of staff; a status without staff and an entry without
\* limits; a member outside its employment, a backup and a must_day_off date
InitTypes ==
    \/ \E maxOff \in {None, Some(0), Some(1)},
          maxEarly \in {None, Some(0), Some(1)},
          isHard \in {None, Some(TRUE)} :
          InitWith(PairRoster(<<None, None>>), Horizon(NumDailyDates),
                   [EmptyConstraints EXCEPT
                       !.staffTypeLimits =
                           "shain" :> TypeLimit(None, maxOff, maxEarly, isHard),
                       !.dailyLimitsRaw = NoDaily],
                   {})
    \/ \E minOff \in {Some(-1), Some(0), Some(1), Some(2), Some(5)},
          maxOff \in {None, Some(1)} :
          InitWith(PairRoster(<<None, None>>), Horizon(NumDailyDates),
                   [EmptyConstraints EXCEPT
                       !.staffTypeLimits =
                           "shain" :> TypeLimit(minOff, maxOff, None, None),
                       !.dailyLimitsRaw = NoDaily],
                   {})
    \/ \E limits \in {"part" :> TypeLimit(None, Some(0), Some(0), None),
                      "haken" :> TypeLimit(None, None, None, Some(TRUE)),
                      "haken" :> TypeLimit(None, Some(-1), None, None),
                      "haken" :> TypeLimit(None, Some(0), Some(0), None)
                          @@ "shain" :> TypeLimit(None, Some(1), Some(-1), None)},
          periods \in {<<None, None>>, <<Some(Period(Some(0), Some(2))), None>>} :
          InitWith(PairRoster(periods), Horizon(NumDailyDates),
                   [EmptyConstraints EXCEPT
                       !.staffTypeLimits = limits,
                       !.dailyLimitsRaw = NoDaily],
                   {})
    \/ \E rules \in {<<>>, <<CalendarRule(1, TRUE, FALSE)>>},
          backups \in {<<>>, <<BackupAssignment("b", "g", Some(TRUE))>>} :
          InitWith(PairRoster(<<None, None>>), Horizon(NumDailyDates),
                   [EmptyConstraints EXCEPT
                       !.staffGroups = <<StaffGroup("g", "G", {"c"})>>,
                       !.backupAssignments = backups,
                       !.calendarRules = rules,
                       !.staffTypeLimits =
                           "shain" :> TypeLimit(None, Some(0), Some(0), None),
                       !.dailyLimitsRaw = NoDaily],
                   {})

SpecTypes == InitTypes /\ [][Next]_vars

-----------------------------------------------------------------------------
(* C13 *)

\* the solver has returned an assignment
Solved == solver.status \in {"OPTIMAL", "FEASIBLE"}

\* the status types configured with maxOff and without maxEarly, the other
\* fields of the entry being valid
MaxOffOnlyTypes ==
    {t \in DOMAIN constraints_config.staffTypeLimits :
        LET limits == constraints_config.staffTypeLimits[t]
        IN /\ limits.maxOff # None /\ Get(limits.maxOff, 0) >= 0
           /\ limits.maxEarly = None
           /\ limits.minOff = None
                  \/ (0 <= Get(limits.minOff, 0)
                      /\ Get(limits.minOff, 0) <= Get(limits.maxOff, 0))}

\* the non-backup staff of the status that are Off on the date under the
\* solver's assignment
TypeOff(staff_type, date) ==
    {staff_id \in NonBackupStaff :
        /\ Get(StaffById(staff_id).status, "Unknown") = staff_type
        /\ Employed(staff_id, date)
        /\ solver.x[<<staff_id, date>>] = {SHIFT_OFF}}

\* the over-limit indicator of the status on the date is positive
OverLimitPositive(staff_type, date) ==
    \E k \in DOMAIN optimizer.violation_vars :
        /\ optimizer.violation_vars[k].description =
               Description("Staff type over combined limit", "", date,
                           staff_type)
        /\ solver.v[k] > 0

\* C13: for a status type configured with maxOff = M and no maxEarly, any
\* assignment in which more than M non-backup staff of that type are Off on
\* a non-calendar-off date makes that type's over-limit violation indicator
\* positive for that date.
C13_MaxOffAloneCounts ==
    Solved =>
        \A staff_type \in MaxOffOnlyTypes : \A date \in Dates \ ClaimedOffDates :
            Cardinality(TypeOff(staff_type, date))
                    > Get(constraints_config.staffTypeLimits[staff_type].maxOff, 0)
                => OverLimitPositive(staff_type, date)

\* with both sides given, more staff off than maxOff and maxEarly allow
\* makes the indicator positive
C13_BothSidesWitness ==
    /\ Solved
    /\ constraints_config.staffTypeLimits = "shain" :> TypeLimit(None, Some(0), Some(0), None)
    /\ Cardinality(TypeOff("shain", 1)) = 2
    /\ OverLimitPositive("shain", 1)

-----------------------------------------------------------------------------
(* Calls with the post-period constraint                                   *)

\* the number of dates of the horizon of the calls with a long period
NumPostDates == 4

\* the number of backup assignments of the call whose violations exceed
\* the returned list
NumAssignments == 20

HardModes == {None, Some(TRUE), Some(FALSE)}

\* must_day_off rules on the given dates
OffRules(dates) == [i \in DOMAIN dates |-> CalendarRule(dates[i], TRUE, FALSE)]

\* a period of one date followed by one date, in every mode and for every
\* cohort; periods of several lengths in a horizon of four dates, among
\* them two periods whose following dates overlap; a staff outside its
\* employment or pre-filled with Off on the following date; and a call in
\* which a backup leaves an off member uncovered under as many assignments
\* as the returned list holds entries
InitPost ==
    \/ \E enabled \in {None, Some(TRUE)}, isHard \in HardModes,
          cohorts \in {<<None, None>>, <<Some(FALSE), None>>,
                       <<None, Some(FALSE)>>},
          allowEarly \in {None, Some(FALSE)} :
          InitWith(BasicRoster(<<None, None>>), Horizon(NumDates),
                   [EmptyConstraints EXCEPT
                       !.calendarRules = OffRules(<<1>>),
                       !.dailyLimitsRaw = NoDaily,
                       !.postPeriodConstraint =
                           PostPeriod(enabled, isHard, Some(1), None,
                                      cohorts[1], cohorts[2], allowEarly)],
                   {})
    \/ \E off \in {<<1, 2, 3>>, <<1, 2>>, <<1, 3>>, <<4>>},
          minPeriodLength \in {None, Some(2), Some(1)},
          postPeriodDays \in {None, Some(1), Some(3)} :
          InitWith(SingleRoster(None), Horizon(NumPostDates),
                   [EmptyConstraints EXCEPT
                       !.calendarRules = OffRules(off),
                       !.dailyLimitsRaw = NoDaily,
                       !.postPeriodConstraint =
                           PostPeriod(Some(TRUE), Some(TRUE), minPeriodLength,
                                      postPeriodDays, None, None, None)],
                   {})
    \/ \E periods \in {<<Some(Period(Some(0), Some(2))), None>>,
                       <<None, Some(Period(Some(0), Some(1)))>>},
          pre \in {EmptyDict, "a" :> (2 :> "×"), "b" :> (2 :> "△")} :
          InitWith(BasicRoster(periods), Horizon(NumDates),
                   [EmptyConstraints EXCEPT
                       !.calendarRules = OffRules(<<1>>),
                       !.prefilledSchedule = pre,
                       !.dailyLimitsRaw = NoDaily,
                       !.postPeriodConstraint =
                           PostPeriod(Some(TRUE), None, Some(1), None,
                                      None, None, None)],
                   {})
    \/ \E n \in {1, NumAssignments} :
          InitWith(BasicRoster(<<None, None>>), Horizon(NumDates),
                   [EmptyConstraints EXCEPT
                       !.calendarRules = OffRules(<<1>>),
                       !.staffGroups = <<StaffGroup("g", "G", {"a"})>>,
                       !.backupAssignments =
                           [i \in 1..n |-> BackupAssignment("b", "g", None)],
                       !.hardConstraints = "backupCoverage" :> FALSE,
                       !.dailyLimitsRaw = NoDaily,
                       !.postPeriodConstraint =
                           PostPeriod(Some(TRUE), Some(TRUE), Some(1), None,
                                      None, None, None)],
                   {})

SpecPost == InitPost /\ [][Next]_vars

-----------------------------------------------------------------------------
(* C15 *)

\* the post-period constraint is enabled and in HARD mode (the default mode)
PostPeriodIsHard ==
    /\ constraints_config.postPeriodConstraint.enabled = Some(TRUE)
    /\ constraints_config.postPeriodConstraint.isHardConstraint # Some(FALSE)

\* the horizon dates among the postPeriodDays dates that follow a maximal
\* run of at least minPeriodLength consecutive must_day_off dates
ClaimedPostDates ==
    LET days == Get(constraints_config.postPeriodConstraint.postPeriodDays, 2)
        len == Get(constraints_config.postPeriodConstraint.minPeriodLength, 3)
    IN {d \in Dates :
           \E e \in ClaimedOffDates :
               /\ (e + 1) \notin ClaimedOffDates
               /\ e < d /\ d <= e + days
               /\ \E first \in ClaimedOffDates :
                      /\ first + len <= e + 1
                      /\ \A x \in first..e : x \in ClaimedOffDates}

\* the staff of a configured cohort: the regular staff unless
\* avoidDayOffForShain is false, the dispatch staff unless
\* avoidDayOffForHaken is false
Cohort ==
    {staff_id \in StaffIds :
        LET status == Get(StaffById(staff_id).status, "shain")
            config == constraints_config.postPeriodConstraint
        IN \/ status = "shain" /\ config.avoidDayOffForShain # Some(FALSE)
           \/ status = "haken" /\ config.avoidDayOffForHaken # Some(FALSE)}

\* the cells the claim speaks of
PostPeriodCells ==
    {c \in Cohort \X ClaimedPostDates : Employed(c[1], c[2]) /\ HasGlyph(c[1], c[2])}

EscapeDescription(cell) ==
    Description("HARD escape: Post-period day-off", cell[1], cell[2], "")

\* the returned violation list has the escape entry of the cell
EscapeReturned(cell) ==
    \E i \in DOMAIN result.violations :
        /\ result.violations[i].description = EscapeDescription(cell)
        /\ result.violations[i].penalty >= 10000

\* the escape indicator of the cell is positive and weighs at least 10000
EscapePaid(cell) ==
    \E k \in DOMAIN optimizer.violation_vars :
        /\ optimizer.violation_vars[k].description = EscapeDescription(cell)
        /\ solver.v[k] > 0
        /\ solver.v[k] * optimizer.violation_vars[k].weight >= 10000

-----------------------------------------------------------------------------
(* Calls with one constraint family in HARD mode                           *)

\* one call for each family asked as HARD: backup coverage by default and
\* by name, staff groups, daily limits, monthly limits by the limit's flag
\* and by name, the 6-day rest, the post-period constraint and per-type
\* limits; and the calls in which the family is SOFT
InitHard ==
    \/ \E mode \in CoverageModes :
          InitWith(BasicRoster(<<None, None>>), Horizon(NumDates),
                   [EmptyConstraints EXCEPT
                       !.staffGroups = <<StaffGroup("g", "G", {"a"})>>,
                       !.backupAssignments =
                           <<BackupAssignment("b", "g", None)>>,
                       !.dailyLimitsRaw = NoDaily,
                       !.hardConstraints = mode],
                   {})
    \/ \E mode \in {EmptyDict, GroupsHard, DailyHard} :
          InitWith(TrioRoster(<<None, None>>), Horizon(NumDailyDates),
                   [EmptyConstraints EXCEPT
                       !.staffGroups = <<StaffGroup("g", "G", {"a", "b", "c"})>>,
                       !.dailyLimitsRaw = DailyLimits(None, Some(1), Some(1)),
                       !.hardConstraints = mode],
                   {})
    \/ \E mode \in {EmptyDict, "monthlyLimits" :> TRUE},
          isHard \in {None, Some(TRUE)} :
          InitWith(SingleRoster(None), Horizon(NumMonthDates),
                   [EmptyConstraints EXCEPT
                       !.dailyLimitsRaw = NoDaily,
                       !.monthlyLimit =
                           MonthlyLimit(Some(1), Some(1), None, isHard),
                       !.hardConstraints = mode],
                   {})
    \/ \E mode \in {EmptyDict, RestHard} :
          InitWith(SingleRoster(None), Horizon(NumRestDates),
                   [EmptyConstraints EXCEPT
                       !.dailyLimitsRaw = NoDaily,
                       !.prefilledSchedule =
                           "a" :> (1 :> "○" @@ 2 :> "○" @@ 3 :> "○"),
                       !.hardConstraints = mode],
                   {})
    \/ \E isHard \in HardModes :
          InitWith(BasicRoster(<<None, None>>), Horizon(NumDates),
                   [EmptyConstraints EXCEPT
                       !.calendarRules = OffRules(<<1>>),
                       !.dailyLimitsRaw = NoDaily,
                       !.postPeriodConstraint =
                           PostPeriod(Some(TRUE), isHard, Some(1), None,
                                      None, None, None)],
                   {})
    \/ \E isHard \in {None, Some(TRUE)} :
          InitWith(PairRoster(<<None, None>>), Horizon(NumDailyDates),
                   [EmptyConstraints EXCEPT
                       !.staffTypeLimits =
                           "shain" :> TypeLimit(Some(1), Some(1), Some(0), isHard)
                           @@ "haken" :> TypeLimit(None, Some(0), Some(0), None),
                       !.dailyLimitsRaw = NoDaily],
                   {})

SpecHard == InitHard /\ [][Next]_vars

-----------------------------------------------------------------------------
(* C14 *)

\* the descriptions of the violation entries of each constraint family
FamilyTexts ==
    [backupCoverage |-> {"Backup not covering",
                         "Backup has early shift when should cover",
                         "Backup has late shift when should cover"},
     staffGroups |-> {"Staff group", "Staff group early shift violation"},
     dailyLimits |-> {"Daily under-minimum", "Daily over-maximum"},
     monthlyLimits |-> {"Monthly under-minimum", "Monthly over-maximum"},
     fiveDayRest |-> {"6+ consecutive work days"},
     postPeriod |-> {"HARD escape: Post-period day-off",
                     "Post-period day-off avoided"},
     staffTypeLimits |-> {"Staff type under minimum off",
                          "Staff type over combined limit"}]

\* the status types whose limits are asked as HARD
HardTypes ==
    {t \in DOMAIN constraints_config.staffTypeLimits :
        constraints_config.staffTypeLimits[t].isHard = Some(TRUE)}

\* the families configured as HARD
HardFamilies ==
    {family \in DOMAIN FamilyTexts :
        CASE family = "backupCoverage" -> CoverageIsHard
          [] family = "staffGroups" -> GroupsAreHard
          [] family = "dailyLimits" -> DailyIsHard
          [] family = "monthlyLimits" -> MonthlyIsHard
          [] family = "fiveDayRest" -> RestIsHard
          [] family = "postPeriod" -> PostPeriodIsHard
          [] family = "staffTypeLimits" -> HardTypes # {}}

\* the entry is a violation of the family; a per-type entry is one of a type
\* asked as HARD
EntryOf(entry, family) ==
    /\ entry.description.text \in FamilyTexts[family]
    /\ family = "staffTypeLimits" => entry.description.group \in HardTypes

-----------------------------------------------------------------------------
(* A caller that keeps the optimizer for a second call                     *)

\* the number of calls a caller makes on one optimizer
MaxCalls == 2

\* the constraints of the later call: no family but HARD daily limits of
\* one staff off a day, and no family at all
LaterConstraints ==
    {[EmptyConstraints EXCEPT
         !.dailyLimitsRaw = DailyLimits(None, Some(1), Some(1)),
         !.hardConstraints = DailyHard],
     [EmptyConstraints EXCEPT !.dailyLimitsRaw = NoDaily]}

\* optimize_schedule is called again, on the same object, for the same
\* roster and horizon
CallAgain ==
    /\ pc \in {"done", "raised"}
    /\ calls < MaxCalls
    /\ calls' = calls + 1
    /\ constraints_config' \in LaterConstraints
    /\ pc' = "optimize_schedule"
    /\ solver' = NoSolver
    /\ result' = NoResult
    /\ UNCHANGED <<staff_members, date_range, japanese_holidays, optimizer>>

NextReuse == Next \/ CallAgain

\* the first call: a backup assignment, a pre-filled alias, a must_work
\* date, a post-period preference, or nothing of these
InitReuse ==
    \E first \in
        {[EmptyConstraints EXCEPT
             !.staffGroups = <<StaffGroup("g", "G", {"a"})>>,
             !.backupAssignments = <<BackupAssignment("b", "g", None)>>],
         [EmptyConstraints EXCEPT !.prefilledSchedule = "a" :> (1 :> "x")],
         [EmptyConstraints EXCEPT
             !.calendarRules = <<CalendarRule(1, FALSE, TRUE)>>],
         [EmptyConstraints EXCEPT
             !.calendarRules = OffRules(<<1>>),
             !.postPeriodConstraint =
                 PostPeriod(Some(TRUE), None, Some(1), None, None, None, None)],
         EmptyConstraints} :
        InitWith(BasicRoster(<<None, None>>), Horizon(NumDates),
                 [first EXCEPT !.dailyLimitsRaw = NoDaily], {})

SpecReuse == InitReuse /\ [][NextReuse]_vars

-----------------------------------------------------------------------------
(* C16 *)

\* the object a fresh optimizer is when it enters the try block for the
\* arguments of the call
FreshOptimizer ==
    [NewOptimizer EXCEPT
        !.staff_end_dates = ParseEndDates,
        !.staff_start_dates = ParseStartDates,
        !.PENALTY_WEIGHTS = LoadPenaltyWeights]

\* the glyphs a fresh optimizer returns for a call without pre-filled cells
SolvedGlyphs == {SHIFT_SYMBOLS(k) : k \in 0..3} \cup {"○", UNAVAILABLE_SYMBOL}

\* C16: there is no cross-call state.  A later call enters the try block
\* with the object a fresh optimizer would have for its arguments, so that
\* it compiles the same model; and the grid it returns for a call without
\* pre-filled cells shows no glyph recorded by the call before.
C16_NoCrossCallState ==
    /\ (calls > 1 /\ pc = "_create_variables") => optimizer = FreshOptimizer
    /\ (calls > 1 /\ Returned /\ DOMAIN constraints_config.prefilledSchedule = {}) =>
           \A staff_id \in StaffIds : \A date \in Dates :
               HasGlyph(staff_id, date) => GlyphOf(staff_id, date) \in SolvedGlyphs

\* the first call compiles its model from the object of a fresh optimizer
C16_FirstCallIsFresh ==
    (calls = 1 /\ pc = "_create_variables") => optimizer = FreshOptimizer

\* a second call without pre-filled cells returns the alias the first call
\* was pre-filled with
C16_StaleGlyph ==
    /\ calls = 2
    /\ Returned
    /\ DOMAIN constraints_config.prefilledSchedule = {}
    /\ GlyphOf("a", 1) = "x"

\* a second call without backup assignments compiles its model with the
\* backup of the first call
C16_StaleBackup ==
    /\ calls = 2
    /\ pc = "Solve"
    /\ constraints_config.backupAssignments = <<>>
    /\ optimizer.backup_staff_ids = {"b"}

-----------------------------------------------------------------------------
(* Calls that fail                                                         *)

\* a roster whose second dictionary has no key 'id'
BrokenRoster(periods) ==
    <<Staff("a", Some("shain"), None, None),
      Staff(NoId, Some("haken"), periods[1], periods[2])>>

\* the periods of the dictionary without 'id': none, an end_period with
\* year and month, a start_period inside the horizon, a start_period before
\* the horizon
BrokenPeriods ==
    {<<None, None>>,
     <<None, Some(Period(Some(0), Some(1)))>>,
     <<Some(Period(Some(0), Some(2))), None>>,
     <<Some(Period(Some(-1), None)), None>>}

\* well-formed calls, one of them with a pre-filled day off on a date with
\* HARD daily limits of no staff off; and calls with a dictionary without
\* 'id'
InitErrors ==
    \/ \E constraints \in
          {[EmptyConstraints EXCEPT !.dailyLimitsRaw = NoDaily],
           [EmptyConstraints EXCEPT
               !.dailyLimitsRaw = DailyLimits(None, Some(0), Some(0)),
               !.hardConstraints = DailyHard,
               !.prefilledSchedule = "a" :> (1 :> "×")]} :
          InitWith(BasicRoster(<<None, None>>), Horizon(NumDates),
                   constraints, {})
    \/ \E periods \in BrokenPeriods :
          InitWith(BrokenRoster(periods), Horizon(NumDates),
                   [EmptyConstraints EXCEPT !.dailyLimitsRaw = NoDaily], {})

SpecErrors == InitErrors /\ [][Next]_vars

\* the request has a staff dictionary the code cannot process
InternalError == \E i \in DOMAIN staff_members : staff_members[i].id = NoId

FailureStatuses == {"INFEASIBLE", "MODEL_INVALID", "UNKNOWN"}

\* success=false exactly on a failing solver status or an internal error,
\* with the status name or the error message and an empty schedule;
\* success=true on OPTIMAL and FEASIBLE
ReturnsAsClaimed ==
    result.returned =>
        /\ ~result.success <=>
               (solver.status \in FailureStatuses \/ InternalError)
        /\ solver.status \in FailureStatuses =>
               /\ result.status = solver.status
               /\ result.schedule = EmptyDict
        /\ InternalError =>
               /\ result.error # ""
               /\ result.schedule = EmptyDict
        /\ Solved => result.success

\* C17: optimize_schedule returns success=false exactly when the solver
\* status is Infeasible, ModelInvalid or Unknown (then with the status name
\* and an empty schedule) or when an internal error occurs while processing
\* the request (then with the error message and an empty schedule); it never
\* raises to the caller, and with status Optimal or Feasible it returns
\* success=true
C17_FailuresAreReturned ==
    /\ pc # "raised"
    /\ ReturnsAsClaimed

\* a call that raised KeyError out of optimize_schedule
C17_Raised == pc = "raised" /\ ~result.returned /\ InternalError

\* an internal error that was returned
C17_ErrorReturned ==
    result.returned /\ InternalError /\ result.error = "'id'"

\* an infeasible model that was returned
C17_InfeasibleReturned ==
    result.returned /\ result.status = "INFEASIBLE"

-----------------------------------------------------------------------------
(* Calls without rules, groups, backups and HARD families                  *)

\* the longest horizon of these calls
NumBareDates == 4

\* rosters of no, one and two staff, the second employed throughout or from
\* the second date on
BareRosters ==
    {<<>>,
     SingleRoster(None),
     BasicRoster(<<None, None>>),
     BasicRoster(<<Some(Period(Some(0), Some(2))), None>>)}

\* every date of the horizon pre-filled with an early shift for the staff
EarlyEveryDate(staff_id, dates) ==
    staff_id :> [i \in DOMAIN dates |-> "△"]

\* the envelope {} over the rosters and horizons of one and two dates, and
\* the daily limits of the basic test; per-type limits with a minimum the
\* status can and cannot reach; a staff with every date pre-filled
InitBare ==
    \/ \E roster \in BareRosters, n \in 1..2 :
          InitWith(roster, Horizon(n), EmptyConstraints, {})
    \/ InitWith(BasicRoster(<<None, None>>), Horizon(1),
                [EmptyConstraints EXCEPT
                    !.dailyLimitsRaw = DailyLimits(None, Some(1), Some(2))],
                {})
    \/ \E minOff \in {Some(1), Some(3)}, n \in 1..2 :
          InitWith(BasicRoster(<<None, None>>), Horizon(n),
                   [EmptyConstraints EXCEPT
                       !.staffTypeLimits =
                           "shain" :> TypeLimit(minOff, None, None, None),
                       !.dailyLimitsRaw = NoDaily],
                   {})
    \/ \E n \in 1..NumBareDates :
          InitWith(SingleRoster(None), Horizon(n),
                   [EmptyConstraints EXCEPT
                       !.prefilledSchedule = EarlyEveryDate("a", Horizon(n)),
                       !.dailyLimitsRaw = NoDaily],
                   {})

SpecBare == InitBare /\ [][Next]_vars

\* the call has no priority rules, staff groups, backup assignments and
\* calendar rules, no family is switched to HARD, and the horizon is not
\* empty
BareCall ==
    /\ constraints_config.priorityRules = <<>>
    /\ constraints_config.staffGroups = <<>>
    /\ constraints_config.backupAssignments = <<>>
    /\ constraints_config.calendarRules = <<>>
    /\ \A family \in DOMAIN constraints_config.hardConstraints :
           ~constraints_config.hardConstraints[family]
    /\ constraints_config.monthlyLimit.isHardConstraint \in {None, Some(FALSE)}
    /\ Len(date_range) >= 1

\* C18: with empty priority rules, empty staff groups, empty backup
\* assignments and empty calendar rules (and no family switched to HARD),
\* for every roster and every horizon of length at least 1 the HARD
\* constraints emitted by the compiler are jointly satisfiable, so the call
\* returns a schedule rather than Infeasible
C18_AlwaysSatisfiable ==
    BareCall =>
        /\ pc = "Solve" => Solutions # {}
        /\ result.returned => result.status # "INFEASIBLE"

\* the same of the calls with a staff and neither per-type limits nor
\* pre-filled cells
C18_EnvelopeSatisfiable ==
    (/\ BareCall
     /\ staff_members # <<>>
     /\ constraints_config.staffTypeLimits = EmptyDict
     /\ constraints_config.prefilledSchedule = EmptyDict) =>
        /\ pc = "Solve" => Solutions # {}
        /\ result.returned => result.status # "INFEASIBLE"

\* a call with an empty roster that returned Infeasible
C18_EmptyRosterInfeasible ==
    /\ BareCall
    /\ result.returned
    /\ result.status = "INFEASIBLE"
    /\ staff_members = <<>>
    /\ constraints_config = EmptyConstraints

\* a call that returned Infeasible for a per-type minimum above the number
\* of staff of the status
C18_TypeMinimumInfeasible ==
    /\ BareCall
    /\ result.returned
    /\ result.status = "INFEASIBLE"
    /\ constraints_config.staffTypeLimits # EmptyDict
    /\ constraints_config.prefilledSchedule = EmptyDict

\* a call that returned Infeasible for more pre-filled early shifts than
\* the monthly cap of the status
C18_PrefilledEarlyInfeasible ==
    /\ BareCall
    /\ result.returned
    /\ result.status = "INFEASIBLE"
    /\ constraints_config.staffTypeLimits = EmptyDict
    /\ constraints_config.prefilledSchedule # EmptyDict

-----------------------------------------------------------------------------
(* Calls with a monthlyLimitsArray                                         *)

\* an entry of monthlyLimitsArray
LimitEntry(scope, targetIds, minCount, maxCount, isHardConstraint) ==
    [scope |-> scope, targetIds |-> targetIds, minCount |-> minCount,
     maxCount |-> maxCount, isHardConstraint |-> isHardConstraint]

\* two staff of one status: the first is the target of the individual entry
ArrayRoster ==
    <<Staff("a", Some("haken"), None, None),
      Staff("b", Some("haken"), None, None)>>

\* the limits [minCount, maxCount] of the individual entry and of the
\* staff_status entry
ArrayLimits ==
    {<<<<1, 1>>, <<0, 1>>>>, <<<<0, 0>>, <<1, 2>>>>, <<<<2, 2>>, <<0, 1>>>>}

\* an individual entry for the first staff before a staff_status entry for
\* both statuses, both HARD, as in test_individual_monthly_limit_override
InitArray ==
    \E limits \in ArrayLimits :
        InitWith(ArrayRoster, Horizon(NumDates),
                 [EmptyConstraints EXCEPT
                     !.dailyLimitsRaw = NoDaily,
                     !.monthlyLimitsArray =
                         <<LimitEntry("individual", {"a"},
                                      limits[1][1], limits[1][2], TRUE),
                           LimitEntry("staff_status", {"haken", "shain"},
                                      limits[2][1], limits[2][2], TRUE)>>],
                 {})

SpecArray == InitArray /\ [][Next]_vars

\* the entries of the given scope that target the given id or status
EntriesFor(scope, target) ==
    {i \in DOMAIN constraints_config.monthlyLimitsArray :
        /\ constraints_config.monthlyLimitsArray[i].scope = scope
        /\ target \in constraints_config.monthlyLimitsArray[i].targetIds}

\* the entries that bind a staff: the individual entries that target it,
\* and without one the staff_status entries of its status
BindingEntries(staff) ==
    IF EntriesFor("individual", staff.id) # {}
    THEN EntriesFor("individual", staff.id)
    ELSE EntriesFor("staff_status", Get(staff.status, DefaultStatus))

\* the number of dates on which the returned grid shows the staff off
OffGlyphCount(staff_id) ==
    Cardinality({date \in Dates :
                    HasGlyph(staff_id, date) /\ GlyphOf(staff_id, date) = "×"})

\* C19: when monthly limits are given as a monthlyLimitsArray, an entry of
\* scope 'individual' overrides an entry of scope 'staff_status' for the
\* staff it targets: with both HARD, a targeted staff member's off count
\* stays within the individual entry's [minCount, maxCount], and a
\* non-targeted staff member's off count stays within the limits of the
\* staff_status entry matching their status
C19_IndividualOverrides ==
    Returned =>
        \A j \in DOMAIN staff_members :
            \A i \in BindingEntries(staff_members[j]) :
                LET entry == constraints_config.monthlyLimitsArray[i]
                IN entry.isHardConstraint =>
                       /\ OffGlyphCount(staff_members[j].id) >= entry.minCount
                       /\ OffGlyphCount(staff_members[j].id) <= entry.maxCount

\* a returned grid in which the targeted staff is off on no date under an
\* individual entry [1, 1], and the other staff on both dates under a
\* staff_status entry [0, 1]
C19_ArrayIgnored ==
    /\ Returned
    /\ constraints_config.monthlyLimitsArray[1].minCount = 1
    /\ constraints_config.monthlyLimitsArray[2].maxCount = 1
    /\ OffGlyphCount("a") = 0
    /\ OffGlyphCount("b") = 2

-----------------------------------------------------------------------------
(* Calls with monthly limits and a backup                                  *)

\* HARD limits over two dates: the configured minimum and maximum, and the
\* employment of the backup, throughout or from the second date on; SOFT
\* limits over one date
InitRelaxed ==
    \E minCount \in {None, Some(1)},
       maxCount \in {Some(1), Some(2), Some(3)},
       isHardConstraint \in {None, Some(TRUE)},
       periods \in {<<None, None>>, <<Some(Period(Some(0), Some(2))), None>>} :
        /\ isHardConstraint = None => periods = <<None, None>>
        /\ InitWith(BasicRoster(periods),
                    Horizon(IF isHardConstraint = None THEN 1 ELSE NumDates),
                    [EmptyConstraints EXCEPT
                        !.dailyLimitsRaw = NoDaily,
                        !.staffGroups = <<StaffGroup("g", "G", {"a"})>>,
                        !.backupAssignments =
                            <<BackupAssignment("b", "g", Some(TRUE))>>,
                        !.hardConstraints = "backupCoverage" :> FALSE,
                        !.monthlyLimit =
                            MonthlyLimit(minCount, maxCount, None,
                                         isHardConstraint)],
                    {})

SpecRelaxed == InitRelaxed /\ [][Next]_vars

\* the staff the backupAssignments name
RosterBackups ==
    {constraints_config.backupAssignments[i].staffId :
        i \in DOMAIN constraints_config.backupAssignments} \cap StaffIds

\* the monthly pass has run
MonthlyCompiled == pc \in {"Solve", "_extract_solution", "done"}

\* the bounds [lo, hi] of the HARD constraints on the scaled monthly sum of
\* a staff
HardMonthlyBounds(staff_id) ==
    {<<ct.lo, ct.hi>> :
        ct \in {c \in optimizer.model :
                   /\ c.op = "lin"
                   /\ \E t \in c.terms : t.s = staff_id /\ t.c = 2}}

\* the scaled minimum and maximum of the SOFT indicators on the monthly sum
\* of a staff
SoftMonthlyBounds(staff_id, text) ==
    {optimizer.violation_vars[i].const :
        i \in {j \in DOMAIN optimizer.violation_vars :
                  /\ optimizer.violation_vars[j].description.text = text
                  /\ optimizer.violation_vars[j].description.staff = staff_id}}

\* the pass bounds the scaled monthly sum of the staff by [0, max_scaled]
\* and by nothing else
UsesMonthlyBounds(staff_id, max_scaled) ==
    IF Get(constraints_config.monthlyLimit.isHardConstraint, FALSE)
    THEN HardMonthlyBounds(staff_id) = {<<0, max_scaled>>}
    ELSE /\ SoftMonthlyBounds(staff_id, "Monthly under-minimum") = {}
         /\ SoftMonthlyBounds(staff_id, "Monthly over-maximum") = {-max_scaled}

ConfiguredMax == Get(constraints_config.monthlyLimit.maxCount, 0)

\* the maximum of the regular staff: the configured one, at most the number
\* of dates without a must_day_off rule
RegularMax == Min(ConfiguredMax, Cardinality(Dates \ ClaimedOffDates))

\* C20 as stated: for every backup staff member the monthly-limit pass uses
\* relaxed bounds min = 0 and max = the ceiling of 1.5 times the configured
\* monthly max, whatever the staff member's employment window
C20_AsStated ==
    MonthlyCompiled =>
        \A staff_id \in RosterBackups :
            UsesMonthlyBounds(staff_id, 2 * ((3 * ConfiguredMax + 1) \div 2))

\* C20, amended: for every backup staff member the monthly-limit pass uses
\* relaxed bounds min = 0 and max = the floor of 1.5 times the monthly max of
\* the pass (the configured max, capped at the number of flexible days),
\* whatever the staff member's employment window
C20_RelaxedFloor ==
    MonthlyCompiled =>
        \A staff_id \in RosterBackups :
            UsesMonthlyBounds(staff_id, 2 * ((3 * RegularMax) \div 2))

\* a compiled HARD model for a backup employed from the second date on, with
\* a configured minimum of 1 and maximum of 1: its bounds are [0, 1]
C20_Witness ==
    /\ pc = "Solve"
    /\ "b" \in RosterBackups
    /\ staff_members[2].start_period # None
    /\ constraints_config.monthlyLimit.minCount = Some(1)
    /\ ConfiguredMax = 1
    /\ HardMonthlyBounds("b") = {<<0, 2>>}

-----------------------------------------------------------------------------
(* Calls with monthly limits and a partial employment                      *)

\* the horizon of the calls with a partial employment
NumProrateDates == 6

\* HARD limits for one staff: employed on every date of a short horizon, or
\* until the last date but one, or from the last date but one on, of a long
\* one; the configured minimum and maximum reach above the horizon
InitProrated ==
    \E minCount \in {None, Some(1), Some(3)}, maxCount \in {Some(1), Some(2), Some(8)} :
        \/ InitWith(SingleRoster(None), Horizon(NumDates),
                    [EmptyConstraints EXCEPT
                        !.dailyLimitsRaw = NoDaily,
                        !.monthlyLimit =
                            MonthlyLimit(minCount, maxCount, None, Some(TRUE))],
                    {})
        \/ \E periods \in
              {<<None, Some(Period(Some(0), Some(NumProrateDates - 1)))>>,
               <<Some(Period(Some(0), Some(NumProrateDates - 1))), None>>} :
              InitWith(<<Staff("a", Some("shain"), periods[1], periods[2])>>,
                       Horizon(NumProrateDates),
                       [EmptyConstraints EXCEPT
                           !.dailyLimitsRaw = NoDaily,
                           !.monthlyLimit =
                               MonthlyLimit(minCount, maxCount, None, Some(TRUE))],
                       {})

SpecProrated == InitProrated /\ [][Next]_vars

\* the number of horizon dates on which the staff is employed
WorkingDays(staff_id) ==
    Cardinality({date \in Dates : Employed(staff_id, date)})

\* the HARD constraints bound the scaled monthly sum of the staff from below
\* by 2 * lo, when lo is positive, and from above by 2 * hi
AppliesMonthlyBounds(staff_id, lo, hi) ==
    /\ <<0, 2 * hi>> \in HardMonthlyBounds(staff_id)
    /\ \A b \in HardMonthlyBounds(staff_id) :
           b = <<0, 2 * hi>> \/ (lo > 0 /\ b[1] = 2 * lo)
    /\ lo > 0 => \E b \in HardMonthlyBounds(staff_id) : b[1] = 2 * lo

ConfiguredMin == Get(constraints_config.monthlyLimit.minCount, 0)

\* the minimum of a staff employed on working_days dates
ProratedMin(working_days) == (working_days * 100) \div 425

\* the bounds the claim gives a staff, from the maximum original_max and the
\* bounds of a staff employed throughout
ClaimedMonthlyBounds(staff_id, original_max, full) ==
    LET working_days == WorkingDays(staff_id)
        total_days == Len(date_range)
    IN IF 0 < working_days /\ working_days < total_days
       THEN <<ProratedMin(working_days),
              Max(ProratedMin(working_days) + 1,
                  (working_days * original_max) \div total_days)>>
       ELSE full

-----------------------------------------------------------------------------
(* Calls with ortoolsConfig.penaltyWeights                                 *)

\* penaltyWeights: none, the two of test_partial_custom_weights, and one
\* for every default weight
WeightCases ==
    {EmptyDict,
     "staffGroup" :> 200 @@ "fiveDayRest" :> 400,
     "staffGroup" :> 11 @@ "dailyLimitMin" :> 12 @@ "dailyLimitMax" :> 13
         @@ "monthlyLimit" :> 14 @@ "adjacentConflict" :> 15
         @@ "fiveDayRest" :> 16 @@ "staffTypeLimit" :> 17
         @@ "backupCoverage" :> 18 @@ "staffStatusShift" :> 19}

\* calls that compile SOFT indicators of every family: daily limits and a
\* restricted status; adjacent pairs; monthly limits; per-type limits; a
\* group with a backup; a window of six dates
InitWeights ==
    \E weights \in WeightCases :
        \/ InitWith(BasicRoster(<<None, None>>), Horizon(1),
                    [EmptyConstraints EXCEPT !.penaltyWeights = weights], {})
        \/ InitWith(SingleRoster(None), Horizon(NumDates),
                    [EmptyConstraints EXCEPT
                        !.dailyLimitsRaw = NoDaily,
                        !.penaltyWeights = weights],
                    {})
        \/ InitWith(SingleRoster(None), Horizon(1),
                    [EmptyConstraints EXCEPT
                        !.dailyLimitsRaw = NoDaily,
                        !.monthlyLimit =
                            MonthlyLimit(Some(1), Some(1), None, None),
                        !.penaltyWeights = weights],
                    {})
        \/ InitWith(SingleRoster(None), Horizon(1),
                    [EmptyConstraints EXCEPT
                        !.dailyLimitsRaw = NoDaily,
                        !.staffTypeLimits =
                            "shain" :> TypeLimit(Some(1), Some(1), Some(0), None),
                        !.penaltyWeights = weights],
                    {})
        \/ \E group_hard \in BOOLEAN :
              InitWith(TrioRoster(<<None, None>>), Horizon(1),
                       [EmptyConstraints EXCEPT
                           !.dailyLimitsRaw = NoDaily,
                           !.staffGroups = <<StaffGroup("g", "G", {"a", "b"})>>,
                           !.backupAssignments =
                               <<BackupAssignment("c", "g", Some(TRUE))>>,
                           !.hardConstraints = "backupCoverage" :> FALSE
                               @@ "staffGroups" :> group_hard,
                           !.penaltyWeights = weights],
                       {})
        \/ /\ weights # EmptyDict
           /\ InitWith(SingleRoster(None), Horizon(REST_WINDOW),
                       [EmptyConstraints EXCEPT
                           !.dailyLimitsRaw = NoDaily,
                           !.monthlyLimit =
                               MonthlyLimit(None, Some(1), None, Some(TRUE)),
                           !.penaltyWeights = weights],
                       {})

SpecWeights == InitWeights /\ [][Next]_vars

\* the default of every weight, under the key the caller overrides it with
DefaultWeights ==
    [staffGroup |-> 100, dailyLimitMin |-> 50, dailyLimitMax |-> 50,
     monthlyLimit |-> 80, adjacentConflict |-> 30, fiveDayRest |-> 200,
     staffTypeLimit |-> 60, backupCoverage |-> 500, staffStatusShift |-> 150]

\* the indicators of every weight, as <<description, n, d>>: the indicator
\* carries the weight times n, divided by d
WeightIndicators ==
    [staffGroup |-> {<<"Staff group", 1, 1>>,
                     <<"Staff group early shift violation", 2, 1>>},
     dailyLimitMin |-> {<<"Daily under-minimum", 1, 1>>},
     dailyLimitMax |-> {<<"Daily over-maximum", 1, 1>>},
     monthlyLimit |-> {<<"Monthly under-minimum", 1, 1>>,
                       <<"Monthly over-maximum", 1, 1>>},
     adjacentConflict |-> {<<"Consecutive off days", 1, 1>>,
                           <<"Early-then-off", 1, 1>>,
                           <<"Off-then-early", 1, 1>>,
                           <<"Consecutive early shifts", 1, 1>>},
     fiveDayRest |-> {<<"6+ consecutive work days", 1, 1>>},
     staffTypeLimit |-> {<<"Staff type under minimum off", 2, 1>>,
                         <<"Staff type over combined limit", 1, 1>>},
     backupCoverage |-> {<<"Backup not covering", 1, 1>>,
                         <<"Backup has early shift when should cover", 1, 2>>,
                         <<"Backup has late shift when should cover", 1, 2>>},
     staffStatusShift |-> {<<"Forbidden early shift", 1, 1>>,
                           <<"Forbidden late shift", 1, 1>>}]

\* the value of a weight in this call: the supplied one, else the default
ClaimedWeight(name) ==
    DictGet(constraints_config.penaltyWeights, name, DefaultWeights[name])

\* every compiled indicator of the weight carries its value in this call
CarriesWeight(name) ==
    \A i \in DOMAIN optimizer.violation_vars :
        \A e \in WeightIndicators[name] :
            optimizer.violation_vars[i].description.text = e[1] =>
                optimizer.violation_vars[i].weight
                    = (ClaimedWeight(name) * e[2]) \div e[3]

\* the passes that emit weighted indicators have run
IndicatorsCompiled ==
    pc \in {"_add_objective", "Solve", "_extract_solution", "done"}

\* C22: every default penalty weight can be overridden through
\* ortoolsConfig.penaltyWeights: when the caller supplies a value for a
\* weight, every indicator of that family compiled in this call carries the
\* supplied value, and every weight not supplied keeps its default
C22_EveryWeightOverridden ==
    IndicatorsCompiled => \A name \in DOMAIN DefaultWeights : CarriesWeight(name)

\* the same of every weight but the one of the status restrictions
C22_MappedWeightsOverridden ==
    IndicatorsCompiled =>
        \A name \in DOMAIN DefaultWeights \ {"staffStatusShift"} :
            CarriesWeight(name)

\* a compiled model with a supplied weight of 19 for the status restrictions
\* whose indicator of a forbidden early shift carries the default 150
C22_StatusWeightKept ==
    /\ pc = "Solve"
    /\ DictGet(constraints_config.penaltyWeights, "staffStatusShift", 0) = 19
    /\ \E i \in DOMAIN optimizer.violation_vars :
           /\ optimizer.violation_vars[i].description.text
                  = "Forbidden early shift"
           /\ optimizer.violation_vars[i].weight = 150

\* a compiled model with supplied weights that holds the indicators of a
\* backup and of a HARD group, the latter carrying twice the supplied 11
C22_FamiliesCompiled ==
    /\ pc = "Solve"
    /\ DictGet(constraints_config.penaltyWeights, "staffGroup", 0) = 11
    /\ \E i \in DOMAIN optimizer.violation_vars :
           optimizer.violation_vars[i].description.text
               = "Backup has early shift when should cover"
    /\ \E i \in DOMAIN optimizer.violation_vars :
           /\ optimizer.violation_vars[i].description.text
                  = "Staff group early shift violation"
           /\ optimizer.violation_vars[i].weight = 22

\* a compiled model with supplied weights that holds both indicators of a
\* status limit, carrying the supplied 17 and twice it
C22_TypeCompiled ==
    /\ pc = "Solve"
    /\ \E i \in DOMAIN optimizer.violation_vars :
           /\ optimizer.violation_vars[i].description.text
                  = "Staff type under minimum off"
           /\ optimizer.violation_vars[i].weight = 34
    /\ \E i \in DOMAIN optimizer.violation_vars :
           /\ optimizer.violation_vars[i].description.text
                  = "Staff type over combined limit"
           /\ optimizer.violation_vars[i].weight = 17

-----------------------------------------------------------------------------
(* Calls with priorityRules                                                *)

\* a nominally HARD preference of staff a for Mondays and Tuesdays, the
\* weekdays of the two dates of the horizon
RequiredRule(id, name, shiftType) ==
    PriorityRule(id, name, "preferred_shift", "a", <<>>, shiftType, <<1, 2>>,
                 Some(TRUE))

\* the places a rule names its kind in: the key shiftType missing, empty or
\* given, in either case; ruleDefinition in snake and in camel case; the
\* legacy preferences
KindCases ==
    {[RequiredRule("r1", "R1", top) EXCEPT
         !.ruleDefinition.shift_type = snake,
         !.ruleDefinition.shiftType = camel,
         !.preferences.shiftType = legacy] :
        top \in {None, Some(""), Some("off"), Some("early"), Some("Early"),
                 Some("late")},
        snake \in {"", "early"},
        camel \in {"", "late"},
        legacy \in {"", "early", "off"}}

InitKinds ==
    \E rule \in KindCases :
        InitWith(SingleRoster(None), Horizon(NumDates),
                 [EmptyConstraints EXCEPT
                     !.dailyLimitsRaw = NoDaily,
                     !.priorityRules = <<rule>>],
                 {})

SpecKinds == InitKinds /\ [][Next]_vars

\* the first non-empty name of the chain, in lower case, else off
ChainKindName(rule) ==
    LET chain == <<Get(rule.shiftType, ""), rule.ruleDefinition.shift_type,
                   rule.ruleDefinition.shiftType, rule.preferences.shiftType,
                   "off">>
        first == CHOOSE i \in DOMAIN chain :
                     /\ chain[i] # ""
                     /\ \A j \in 1..(i - 1) : chain[j] = ""
    IN Lower(chain[first])

\* the kind a name stands for
KindNamed(name) ==
    CASE name = "off" -> SHIFT_OFF
      [] name = "early" -> SHIFT_EARLY
      [] name = "late" -> SHIFT_LATE
      [] OTHER -> SHIFT_WORK

\* the kinds of the variables the compile pass tied the indicators of the
\* rule to
CompiledKinds(rule) ==
    {t.k : t \in UNION {optimizer.violation_vars[i].terms :
                           i \in {j \in DOMAIN optimizer.violation_vars :
                                     optimizer.violation_vars[j].description.group
                                         = rule.name}}}

\* what the monthly preparation pass logs for staff a when it resolves the
\* rule to the kind: 2 per date for off, 1 for early, nothing otherwise
PreparedFor(kind) ==
    CASE kind = SHIFT_OFF ->
             optimizer.priority_rule_off_equiv = ("a" :> 2 * Len(date_range))
      [] kind = SHIFT_EARLY ->
             optimizer.priority_rule_off_equiv = ("a" :> Len(date_range))
      [] OTHER -> optimizer.priority_rule_off_equiv = EmptyDict

\* C23: for every priority rule, the kind used by the monthly preparation
\* pass and by the compile pass is the first non-empty value of the
\* top-level shiftType, ruleDefinition.shift_type / ruleDefinition.shiftType
\* and preferences.shiftType, defaulting to off; both passes resolve the
\* same kind for the same rule
C23_SameKindInBothPasses ==
    pc \in {"_add_objective", "Solve", "_extract_solution", "done"} =>
        \A i \in DOMAIN constraints_config.priorityRules :
            LET rule == constraints_config.priorityRules[i]
                kind == KindNamed(ChainKindName(rule))
            IN /\ PreparedFor(kind)
               /\ CompiledKinds(rule) = {kind}

\* the monthly preparation pass alone follows the chain
C23_PreparationFollowsChain ==
    pc \in {"_add_monthly_limits", "_add_objective", "Solve", "done"} =>
        \A i \in DOMAIN constraints_config.priorityRules :
            PreparedFor(KindNamed(ChainKindName(
                constraints_config.priorityRules[i])))

\* a compiled model of a rule that names early in ruleDefinition.shift_type
\* only: the preparation pass counted early shifts, the compile pass tied
\* the rule to the Off variables
C23_PassesDisagree ==
    /\ pc = "Solve"
    /\ \E i \in DOMAIN constraints_config.priorityRules :
           LET rule == constraints_config.priorityRules[i]
           IN /\ rule.shiftType = None
              /\ rule.ruleDefinition.shift_type = "early"
              /\ rule.preferences.shiftType = ""
              /\ PreparedFor(SHIFT_EARLY)
              /\ CompiledKinds(rule) = {SHIFT_OFF}

\* a compiled model of a rule with an empty shiftType and no other name:
\* the preparation pass counted days off, the compile pass tied the rule to
\* the Work variables
C23_EmptyNameIsWork ==
    /\ pc = "Solve"
    /\ \E i \in DOMAIN constraints_config.priorityRules :
           LET rule == constraints_config.priorityRules[i]
           IN /\ rule.shiftType = Some("")
              /\ ChainKindName(rule) = "off"
              /\ PreparedFor(SHIFT_OFF)
              /\ CompiledKinds(rule) = {SHIFT_WORK}

-----------------------------------------------------------------------------
(* Calls with two priority rules                                           *)

\* the first rule: an early shift for staff a on Mondays, nominally HARD or
\* not, active or not
FirstRules(id) ==
    {[PriorityRule(id, "R1", "preferred_shift", "a", <<>>, Some("early"),
                   <<1>>, Some(hard)) EXCEPT !.isActive = active] :
        hard \in BOOLEAN, active \in {None, Some(FALSE)}}

\* the second rule, on Tuesdays: a nominally HARD block of days off, a
\* preference for late shifts, or days off avoided with early shifts allowed
SecondRules(id) ==
    {PriorityRule(id, "R2", "avoided_shift", "a", <<>>, Some("off"), <<2>>,
                  Some(TRUE)),
     PriorityRule(id, "R2", "preferred_shift", "a", <<>>, Some("late"), <<2>>,
                  None),
     [PriorityRule(id, "R2", "avoid_shift_with_exceptions", "", <<"a">>,
                   Some("off"), <<2>>, None)
         EXCEPT !.allowedShifts = <<"early">>]}

\* the ids of the two rules: shared, distinct, both missing
IdCases == {<<"r1", "r1">>, <<"r1", "r2">>, <<"", "">>}

InitDuplicates ==
    \E ids \in IdCases :
        \E first \in FirstRules(ids[1]), second \in SecondRules(ids[2]) :
            InitWith(SingleRoster(None), Horizon(NumDates),
                     [EmptyConstraints EXCEPT
                         !.dailyLimitsRaw = NoDaily,
                         !.priorityRules = <<first, second>>],
                     {})

SpecDuplicates == InitDuplicates /\ [][Next]_vars

\* the rule of index j shares a non-empty id with an earlier rule
LaterDuplicate(j) ==
    LET rules == constraints_config.priorityRules
    IN /\ rules[j].id # ""
       /\ \E i \in 1..(j - 1) : rules[i].id = rules[j].id

\* the dates of the horizon a rule names: the horizon starts on a Monday,
\* the weekday 1 of daysOfWeek
NamedDates(rule) == Dates \cap Range(rule.daysOfWeek)

\* the indicators that carry the name of the rule
IndicatorsOf(rule) ==
    {i \in DOMAIN optimizer.violation_vars :
        optimizer.violation_vars[i].description.group = rule.name}

\* the preferred and avoided terms on the dates the rule names
PreferenceTermsOf(rule) ==
    {t \in Get(optimizer.preferred_vars, {})
               \cup Get(optimizer.avoided_vars, {}) :
        t.d \in NamedDates(rule)}

\* the indicators of the rest guarantee
RestIndicators ==
    {i \in DOMAIN optimizer.violation_vars :
        optimizer.violation_vars[i].description.text \in
            {"Below target day-offs on free days",
             "Below target early shifts on rule days",
             "Insufficient rest-equivalent"}}

\* the priority-rule passes have run
RulesCompiled == pc \in {"_add_objective", "Solve", "_extract_solution", "done"}

\* a later rule with the id contributes no indicator and no preference
\* term, and an active rule whose id has not occurred is compiled
CompileSkipsOnlyDuplicates ==
    \A j \in DOMAIN constraints_config.priorityRules :
        LET rule == constraints_config.priorityRules[j]
        IN IF LaterDuplicate(j)
           THEN IndicatorsOf(rule) = {} /\ PreferenceTermsOf(rule) = {}
           ELSE Get(rule.isActive, TRUE) =>
                    IndicatorsOf(rule) # {} \/ PreferenceTermsOf(rule) # {}

\* C24: among priority rules that share a non-empty id only the first one
\* in input order is compiled: every later rule with that id contributes no
\* violation indicator, no preference term and nothing to the rest
\* guarantee, and a rule whose id has not occurred earlier in the list is
\* never skipped as a duplicate
C24_OnlyFirstCompiled ==
    RulesCompiled =>
        /\ CompileSkipsOnlyDuplicates
        /\ (\A j \in DOMAIN constraints_config.priorityRules :
               constraints_config.priorityRules[j].ruleType
                   = "avoid_shift_with_exceptions" => LaterDuplicate(j))
               => RestIndicators = {}

\* the same of the compile loop alone, the rest guarantee left aside
C24_CompileLoopSkipsDuplicates == RulesCompiled => CompileSkipsOnlyDuplicates

\* a compiled model of two rules with the id r1, the second avoiding days
\* off with early shifts allowed: the second has no indicator and no term of
\* its own, and the rest guarantee holds the indicators it asked for
C24_DuplicateGuaranteed ==
    /\ pc = "Solve"
    /\ Len(constraints_config.priorityRules) = 2
    /\ LaterDuplicate(2)
    /\ constraints_config.priorityRules[2].ruleType
           = "avoid_shift_with_exceptions"
    /\ IndicatorsOf(constraints_config.priorityRules[2]) = {}
    /\ PreferenceTermsOf(constraints_config.priorityRules[2]) = {}
    /\ RestIndicators # {}

\* a compiled model of two rules with distinct ids, both compiled
C24_BothCompiled ==
    /\ pc = "Solve"
    /\ Len(constraints_config.priorityRules) = 2
    /\ ~LaterDuplicate(2)
    /\ IndicatorsOf(constraints_config.priorityRules[1]) # {}
    /\ IndicatorsOf(constraints_config.priorityRules[2]) # {}

-----------------------------------------------------------------------------
(* Calls with the post-period constraint and priority rules                *)

\* no rule, a preference of staff a for late shifts on Tuesdays, and a rule
\* of a staff that is not in the roster
PreferenceRules ==
    {<<>>,
     <<PriorityRule("r1", "R1", "preferred_shift", "a", <<>>, Some("late"),
                    <<2>>, None)>>,
     <<PriorityRule("r1", "R1", "preferred_shift", "z", <<>>, Some("late"),
                    <<2>>, None)>>}

\* a must_day_off period of one date followed by one date, in both modes,
\* with allowEarlyForShain missing, set and cleared
InitPreferred ==
    \E isHard \in {Some(TRUE), Some(FALSE)},
       allowEarly \in {None, Some(TRUE), Some(FALSE)},
       rules \in PreferenceRules :
        InitWith(BasicRoster(<<None, None>>), Horizon(NumDates),
                 [EmptyConstraints EXCEPT
                     !.calendarRules = OffRules(<<1>>),
                     !.dailyLimitsRaw = NoDaily,
                     !.priorityRules = rules,
                     !.postPeriodConstraint =
                         PostPeriod(Some(TRUE), isHard, Some(1), None,
                                    None, None, allowEarly)],
                 {})

SpecPreferred == InitPreferred /\ [][Next]_vars

\* the +20 terms the post-period pass registers in this call: Early of
\* every regular staff on every post-period date, when allowEarlyForShain
\* is set
RegisteredTerms ==
    IF Get(constraints_config.postPeriodConstraint.enabled, FALSE)
       /\ Get(constraints_config.postPeriodConstraint.allowEarlyForShain, TRUE)
    THEN {Term(staff_members[i].id, d, SHIFT_EARLY, 20) :
             <<i, d>> \in
                 {p \in (DOMAIN staff_members) \X Range(post_period_dates) :
                     /\ Get(staff_members[p[1]].status, "shain") = "shain"
                     /\ <<staff_members[p[1]].id, p[2], SHIFT_EARLY>>
                            \in optimizer.shifts}}
    ELSE {}

\* C25: every preference term registered by the post-period pass (+20 on
\* Early for a regular staff on a post-period date when allowEarlyForShain
\* is set) is still present when the objective is assembled and appears in
\* the objective as +20 * x[s,d,Early], whether or not priority rules are
\* supplied in the same call
C25_PreferenceReachesObjective ==
    /\ pc = "_add_objective" =>
           RegisteredTerms \subseteq Get(optimizer.preferred_vars, {})
    /\ pc \in {"Solve", "_extract_solution", "done"} =>
           RegisteredTerms \subseteq optimizer.objective_terms

\* the post-period pass itself registers the terms
C25_Registered ==
    pc = "_add_priority_rules" =>
        RegisteredTerms \subseteq Get(optimizer.preferred_vars, {})

\* an assembled objective of a call without priority rules: the term of
\* staff a on the second date is in preferred_vars and not in the objective
C25_LostWithoutRules ==
    /\ pc = "Solve"
    /\ constraints_config.priorityRules = <<>>
    /\ Term("a", 2, SHIFT_EARLY, 20) \in RegisteredTerms
    /\ Term("a", 2, SHIFT_EARLY, 20) \in Get(optimizer.preferred_vars, {})
    /\ optimizer.avoided_vars = None
    /\ Term("a", 2, SHIFT_EARLY, 20) \notin optimizer.objective_terms

\* an assembled objective of a call with a priority rule: the term is gone
\* from preferred_vars, which holds the term of the rule
C25_LostWithRules ==
    /\ pc = "Solve"
    /\ constraints_config.priorityRules # <<>>
    /\ Term("a", 2, SHIFT_EARLY, 20) \in RegisteredTerms
    /\ Term("a", 2, SHIFT_EARLY, 20) \notin Get(optimizer.preferred_vars, {})
    /\ Term("a", 2, SHIFT_LATE, 2) \in optimizer.objective_terms

-----------------------------------------------------------------------------
(* Calls for the adjacent-pair pass                                        *)

\* the number of dates of the horizon of the calls with calendar rules
NumPairDates == 3

\* three dates of which none, one or two are must_day_off dates, for a
\* staff employed throughout or until the second date, under the default
\* and a supplied weight; and two dates of which one is pre-filled with an
\* alias of a kind, a decorative, an unknown or a padded glyph
InitAdjacent ==
    \/ \E off \in {<<>>, <<1>>, <<2>>, <<3>>, <<1, 2>>},
          end_period \in {None, Some(Period(Some(0), Some(2)))},
          weights \in {EmptyDict, "adjacentConflict" :> 15} :
          InitWith(SingleRoster(end_period), Horizon(NumPairDates),
                   [EmptyConstraints EXCEPT
                       !.calendarRules = OffRules(off),
                       !.dailyLimitsRaw = NoDaily,
                       !.penaltyWeights = weights],
                   {})
    \/ \E date \in 1..NumDates,
          symbol \in {"×", "x", "X", "△", "s", "◇", "○", BLACK_STAR, "?", " ×"} :
          InitWith(SingleRoster(None), Horizon(NumDates),
                   [EmptyConstraints EXCEPT
                       !.prefilledSchedule = "a" :> (date :> symbol),
                       !.dailyLimitsRaw = NoDaily],
                   {})

SpecAdjacent == InitAdjacent /\ [][Next]_vars

\* the adjacent-pair pass has run
PairsCompiled ==
    pc \in {"_add_5_day_rest_constraint", "_add_post_period_constraints",
            "_add_priority_rules", "_add_objective", "Solve",
            "_extract_solution", "done"}

\* the must_day_off dates of the call
CalendarOff(date) ==
    \E i \in DOMAIN constraints_config.calendarRules :
        /\ constraints_config.calendarRules[i].date = date
        /\ constraints_config.calendarRules[i].must_day_off

\* the four indicators of the pair that starts at d1, at the given weight
HasFourIndicators(staff_id, d1, weight) ==
    \A text \in {"Consecutive off days", "Early-then-off", "Off-then-early",
                 "Consecutive early shifts"} :
        \E i \in DOMAIN optimizer.violation_vars :
            /\ optimizer.violation_vars[i].description
                   = Description(text, staff_id, d1, "")
            /\ optimizer.violation_vars[i].weight = weight

\* C26: for every staff member and every pair of consecutive horizon dates
\* d1, d2 on both of which the staff member is employed, unless both are
\* calendar-off, the adjacent-pair pass emits the four SOFT indicators for
\* Off-Off, Early-Off, Off-Early and Early-Early, each weighted by
\* adjacent_conflict; a pair with exactly one calendar-off date still gets
\* them
C26_PairsGetFourIndicators ==
    PairsCompiled =>
        \A staff_id \in StaffIds : \A i \in 1..(Len(date_range) - 1) :
            (/\ Employed(staff_id, date_range[i])
             /\ Employed(staff_id, date_range[i + 1])
             /\ ~(CalendarOff(date_range[i]) /\ CalendarOff(date_range[i + 1])))
            => HasFourIndicators(staff_id, date_range[i],
                   DictGet(constraints_config.penaltyWeights,
                           "adjacentConflict", 30))

\* the same of the pairs without a calendar-off date
C26_FreePairsGetFourIndicators ==
    PairsCompiled =>
        \A staff_id \in StaffIds : \A i \in 1..(Len(date_range) - 1) :
            (/\ Employed(staff_id, date_range[i])
             /\ Employed(staff_id, date_range[i + 1])
             /\ ~CalendarOff(date_range[i])
             /\ ~CalendarOff(date_range[i + 1]))
            => HasFourIndicators(staff_id, date_range[i],
                   DictGet(constraints_config.penaltyWeights,
                           "adjacentConflict", 30))

\* a compiled model whose second date alone is calendar-off: the pair of
\* the first two dates has no indicator, the staff being employed on both
C26_OneCalendarDateSkipped ==
    /\ pc = "Solve"
    /\ ~CalendarOff(1) /\ CalendarOff(2) /\ ~CalendarOff(3)
    /\ Employed("a", 1) /\ Employed("a", 2)
    /\ \A i \in DOMAIN optimizer.violation_vars :
           optimizer.violation_vars[i].description.staff # "a"

\* the 500-weight indicator on Off of `date` with the given text
HasNeighbourPenalty(text, staff_id, date) ==
    \E i \in DOMAIN optimizer.violation_vars :
        /\ optimizer.violation_vars[i].description
               = Description(text, staff_id, date, "")
        /\ optimizer.violation_vars[i].weight = 500
        /\ optimizer.violation_vars[i].terms
               = {Term(staff_id, date, SHIFT_OFF, 1)}

\* the glyph pre-filled for the staff on the date, without its blanks; ""
\* when there is none
PrefilledGlyph(staff_id, date) ==
    LET prefilled == constraints_config.prefilledSchedule
    IN IF staff_id \in DOMAIN prefilled /\ date \in DOMAIN prefilled[staff_id]
       THEN Strip(prefilled[staff_id][date])
       ELSE ""

\* the penalties of every pair of a call without calendar rules are those
\* of the pre-filled glyphs that are not in `off_glyphs`
PenaltiesUnless(off_glyphs) ==
    \A staff_id \in StaffIds : \A i \in 1..(Len(date_range) - 1) :
        /\ HasNeighbourPenalty("Day-off after pre-filled work", staff_id,
                               date_range[i + 1])
               <=> PrefilledGlyph(staff_id, date_range[i])
                       \notin {""} \cup off_glyphs
        /\ HasNeighbourPenalty("Day-off before pre-filled work", staff_id,
                               date_range[i])
               <=> PrefilledGlyph(staff_id, date_range[i + 1])
                       \notin {""} \cup off_glyphs

\* C27: in the adjacent-pair pass the weight-500 penalty on Off of the
\* neighbouring date is added exactly when the pre-filled glyph of the
\* other date decodes to a kind other than Off: a pre-fill with any Off
\* alias never triggers it, and a pre-fill of Work, Early, Late or a
\* decorative glyph always does
C27_PenaltyIffNotOff ==
    (PairsCompiled /\ constraints_config.calendarRules = <<>>) =>
        PenaltiesUnless({"×", "x", "X"})

\* the same with the Off glyph alone in place of the Off aliases
C27_PenaltyIffNotOffGlyph ==
    (PairsCompiled /\ constraints_config.calendarRules = <<>>) =>
        PenaltiesUnless({"×"})

\* a compiled model with the alias x pre-filled on the first date: the
\* cell is locked to Off and the second date carries the penalty
C27_AliasPenalised ==
    /\ pc = "Solve"
    /\ "a" \in DOMAIN constraints_config.prefilledSchedule
    /\ 1 \in DOMAIN constraints_config.prefilledSchedule["a"]
    /\ constraints_config.prefilledSchedule["a"][1] = "x"
    /\ Lin({Term("a", 1, SHIFT_OFF, 1)}, 0, 1, 1) \in optimizer.model
    /\ HasNeighbourPenalty("Day-off after pre-filled work", "a", 2)

-----------------------------------------------------------------------------
(* The violations list of a successful result                              *)

\* the penalties of the indicators with a positive value, by their place
\* in violation_vars
PositivePenalties ==
    [i \in {j \in DOMAIN optimizer.violation_vars : solver.v[j] > 0} |->
        solver.v[i] * optimizer.violation_vars[i].weight]

\* the returned entries are entries of positive indicators, each with the
\* penalty value * weight
ListedArePositive ==
    \A k \in DOMAIN result.violations :
        \E i \in DOMAIN PositivePenalties :
            /\ result.violations[k].description
                   = optimizer.violation_vars[i].description
            /\ result.violations[k].count = solver.v[i]
            /\ result.violations[k].penalty = PositivePenalties[i]

\* the list is as long as claimed
ListedEnough ==
    Len(result.violations)
        >= Min(20, Cardinality(DOMAIN PositivePenalties))

\* no positive indicator outside the list has a larger penalty than an
\* entry of the list: every penalty above the smallest listed one is listed
ListedAreLargest ==
    result.violations # <<>> =>
        LET least == CHOOSE m \in {result.violations[k].penalty :
                                      k \in DOMAIN result.violations} :
                         \A k \in DOMAIN result.violations :
                             m <= result.violations[k].penalty
        IN Cardinality({i \in DOMAIN PositivePenalties :
                           PositivePenalties[i] > least})
           = Cardinality({k \in DOMAIN result.violations :
                             result.violations[k].penalty > least})

\* C28: the violations list of a successful result holds the top
\* violations by penalty: every indicator with a positive value is a
\* violation with penalty value * weight, the list has at least
\* min(20, number of violations) entries, and no violation left out of the
\* list has a larger penalty than one that is in it
C28_TopViolationsListed ==
    (pc = "done" /\ result.success) =>
        /\ ListedArePositive
        /\ ListedEnough
        /\ ListedAreLargest

\* the same without the order by penalty
C28_FirstViolationsListed ==
    (pc = "done" /\ result.success) =>
        /\ ListedArePositive
        /\ ListedEnough
        /\ \A k \in DOMAIN result.violations :
               \E i \in DOMAIN PositivePenalties :
                   /\ result.violations[k].description
                          = optimizer.violation_vars[i].description
                   /\ Cardinality({j \in DOMAIN PositivePenalties : j < i})
                          = k - 1

\* a successful result whose list of 20 entries of penalty 500 leaves out
\* an escape of penalty 10000
C28_LargestLeftOut ==
    /\ pc = "done"
    /\ result.success
    /\ Len(result.violations) = 20
    /\ \A k \in DOMAIN result.violations : result.violations[k].penalty = 500
    /\ \E i \in DOMAIN PositivePenalties : PositivePenalties[i] = 10000

-----------------------------------------------------------------------------
(* Calls with a pre-filled cell on a must_day_off date                     *)

\* the first of two dates is a must_day_off date on which staff a is
\* pre-filled with a glyph of every kind, an alias, a decorative and an
\* unknown glyph, with and without an early-shift preference for the date
InitLocked ==
    \E symbol \in {"×", "x", "△", "◇", "○", BLACK_STAR, "?"},
       prefs \in {EmptyDict, "a" :> EarlyPrefs(1 :> TRUE, None),
                  "a" :> EarlyPrefs(EmptyDict, Some(TRUE))} :
        InitWith(BasicRoster(<<None, None>>), Horizon(NumDates),
                 [EmptyConstraints EXCEPT
                     !.calendarRules = OffRules(<<1>>),
                     !.earlyShiftPreferences = prefs,
                     !.prefilledSchedule = "a" :> (1 :> symbol),
                     !.dailyLimitsRaw = NoDaily],
                 {})

SpecLocked == InitLocked /\ [][Next]_vars

\* the kept pre-fills on must_day_off dates
LockedOnMustDayOff == {c \in optimizer.prefilled_cells : CalendarOff(c[2])}

\* C29: a pre-filled cell on a must_day_off date never makes the model
\* unsatisfiable: for every kept pre-fill (s, d, g) with d a must_day_off
\* date, the pre-fill equality and the calendar rule for (s, d) can both be
\* satisfied, whatever kind g decodes to and whether or not s has an
\* early-shift preference
C29_PrefillNeverUnsatisfiable ==
    /\ pc = "Solve" => \A c \in LockedOnMustDayOff : CellDomain(c) # {}
    /\ pc = "done" => (LockedOnMustDayOff # {} => result.status # "INFEASIBLE")

\* the same of the pre-fills that decode to Off and of the staff with an
\* early-shift preference for the date
C29_OffOrPreferenceSatisfiable ==
    pc = "Solve" =>
        \A c \in LockedOnMustDayOff :
            (\/ PrefilledGlyph(c[1], c[2]) \in {"×", "x", "X"}
             \/ /\ c[1] \in DOMAIN constraints_config.earlyShiftPreferences
                /\ \/ c[2] \in DOMAIN
                          constraints_config.earlyShiftPreferences[c[1]].dates
                   \/ constraints_config.earlyShiftPreferences[c[1]].default
                          # None)
            => CellDomain(c) # {}

\* a returned call in which staff a, without a preference, is pre-filled
\* with a work glyph on the must_day_off date: no schedule exists
C29_WorkOnMustDayOffInfeasible ==
    /\ pc = "done"
    /\ constraints_config.earlyShiftPreferences = EmptyDict
    /\ PrefilledGlyph("a", 1) = "○"
    /\ <<"a", 1>> \in LockedOnMustDayOff
    /\ result.status = "INFEASIBLE"
    /\ ~result.success

\* a returned call in which staff a, with a preference, is pre-filled with a
\* work glyph on the must_day_off date: the glyph is in the schedule
C29_WorkWithPreferenceKept ==
    /\ pc = "done"
    /\ constraints_config.earlyShiftPreferences # EmptyDict
    /\ PrefilledGlyph("a", 1) = "○"
    /\ result.success
    /\ result.schedule["a"][1] = "○"

-----------------------------------------------------------------------------
(* Calls with pre-fills of a staff member named in backup assignments      *)

\* staffGroups and backupAssignments naming staff b: an accepted assignment,
\* an inactive one, one of an unknown group, one of a group without a
\* roster member, one without staff groups, and no assignment at all
NamedCases ==
    {<<<<StaffGroup("g", "G", {"a"})>>,
       <<BackupAssignment("b", "g", Some(TRUE))>>>>,
     <<<<StaffGroup("g", "G", {"a"})>>,
       <<BackupAssignment("b", "g", Some(FALSE))>>>>,
     <<<<StaffGroup("g", "G", {"a"})>>,
       <<BackupAssignment("b", "h", None)>>>>,
     <<<<StaffGroup("g", "G", {"z"})>>,
       <<BackupAssignment("b", "g", None)>>>>,
     <<<<>>, <<BackupAssignment("b", "g", None)>>>>,
     <<<<StaffGroup("g", "G", {"a"})>>, <<>>>>}

\* staff b is pre-filled on the first date
InitNamed ==
    \E case \in NamedCases, symbol \in {"×", "△", "○"} :
        InitWith(BasicRoster(<<None, None>>), Horizon(NumDates),
                 [EmptyConstraints EXCEPT
                     !.dailyLimitsRaw = NoDaily,
                     !.staffGroups = case[1],
                     !.backupAssignments = case[2],
                     !.prefilledSchedule = "b" :> (1 :> symbol)],
                 {})

SpecNamed == InitNamed /\ [][Next]_vars

\* the backup pass has run
BackupPassDone ==
    pc \in {"Solve", "_extract_solution", "done"}

\* the roster's staff with a pre-filled glyph none of whose cells is kept
PrefillsDropped ==
    {staff_id \in StaffIds \cap DOMAIN constraints_config.prefilledSchedule :
        /\ \E date \in Dates : PrefilledGlyph(staff_id, date) # ""
        /\ \A date \in Dates :
               <<staff_id, date>> \notin optimizer.prefilled_cells}

\* the pre-filled cell is a HARD equality of the model and is echoed
KeepsPrefill(staff_id, date) ==
    /\ <<staff_id, date>> \in optimizer.prefilled_cells
    /\ \E kind \in Kinds :
           Lin({Term(staff_id, date, kind, 1)}, 0, 1, 1) \in optimizer.model
    /\ (pc = "done" /\ result.success) =>
           result.schedule[staff_id][date] = PrefilledGlyph(staff_id, date)

\* the staff named by an assignment, whatever its state
NamedInAssignments ==
    {constraints_config.backupAssignments[i].staffId :
        i \in DOMAIN constraints_config.backupAssignments}

\* C30: the set of staff whose pre-fills are dropped as backup pre-fills
\* equals the backup-id set that exempts staff from the limit passes: a
\* staff member named only in backup assignments that the backup pass
\* rejects (inactive, unknown group, group with no roster member, or no
\* staff groups supplied) keeps their pre-filled cells as HARD equalities
\* and echoed glyphs
C30_DroppedAreBackupIds ==
    BackupPassDone =>
        /\ PrefillsDropped = optimizer.backup_staff_ids
                                 \cap DOMAIN constraints_config.prefilledSchedule
        /\ \A staff_id \in NamedInAssignments \cap StaffIds :
               staff_id \notin optimizer.backup_staff_ids =>
                   \A date \in Dates :
                       PrefilledGlyph(staff_id, date) # "" => KeepsPrefill(staff_id, date)

\* the same of the staff named in no active assignment: the dropped
\* pre-fills are those of the staff an active assignment names
C30_DroppedAreActiveNamed ==
    BackupPassDone =>
        /\ PrefillsDropped =
               {constraints_config.backupAssignments[i].staffId :
                   i \in {j \in DOMAIN constraints_config.backupAssignments :
                             Get(constraints_config.backupAssignments[j].isActive,
                                 TRUE)}}
                   \cap StaffIds \cap DOMAIN constraints_config.prefilledSchedule
        /\ optimizer.backup_staff_ids \subseteq PrefillsDropped
        /\ \A staff_id \in StaffIds \ PrefillsDropped :
               \A date \in Dates :
                   PrefilledGlyph(staff_id, date) # "" => KeepsPrefill(staff_id, date)

\* a returned call in which staff b, named only in an assignment of an
\* unknown group, is no backup staff and has lost the pre-filled glyph
C30_RejectedLosesPrefill ==
    /\ pc = "done"
    /\ result.success
    /\ constraints_config.backupAssignments =
           <<BackupAssignment("b", "h", None)>>
    /\ optimizer.backup_staff_ids = {}
    /\ PrefilledGlyph("b", 1) = "△"
    /\ <<"b", 1>> \notin optimizer.prefilled_cells
    /\ result.schedule["b"][1] # "△"

\* a returned call in which staff b, named only in an inactive assignment,
\* keeps the pre-filled glyph
C30_InactiveKeepsPrefill ==
    /\ pc = "done"
    /\ result.success
    /\ constraints_config.backupAssignments =
           <<BackupAssignment("b", "g", Some(FALSE))>>
    /\ optimizer.backup_staff_ids = {}
    /\ PrefilledGlyph("b", 1) = "△"
    /\ KeepsPrefill("b", 1)
    /\ result.schedule["b"][1] = "△"

\* a returned call in which staff b, of an accepted assignment, is backup
\* staff and has the pre-fill dropped
C30_AcceptedDropsPrefill ==
    /\ pc = "done"
    /\ optimizer.backup_staff_ids = {"b"}
    /\ PrefillsDropped = {"b"}

====
